---- MODULE Spec2Model ----
(***************************************************************************)
(* Crane lift-safety engine (crates/crane_core): load charts, capacity     *)
(* lookup, crane configuration validation and rigging statics.             *)
(*                                                                         *)
(* Numbers.  The code computes in f32.  The model computes the same        *)
(* expressions exactly: lengths are integers in millimetres, weights are   *)
(* integers in kilograms, angles are integers (degrees for the swing       *)
(* angle, millidegrees where a trigonometric table is involved) and every  *)
(* quotient is a rational [n, d] in lowest terms with d > 0.               *)
(***************************************************************************)
EXTENDS Integers, Sequences, FiniteSets, TLC

VARIABLES
    lc,     \* a LoadChart under construction (capacity.rs LoadChart)
    cc,     \* a CapacityChart (capacity.rs CapacityChart)
    cfg,    \* a CraneConfiguration (configuration.rs)
    rig,    \* a RiggingConfiguration (rigging.rs)
    gc,     \* a GroundConfiguration (ground_bearing.rs)
    osys,   \* an OutriggerSystem on its own (outriggers.rs)
    cwc,    \* a CounterweightConfig on its own (counterweight.rs)
    out     \* the last call: its name, its arguments and what it returned

vars == <<lc, cc, cfg, rig, gc, osys, cwc, out>>

-----------------------------------------------------------------------------
(* f32 arithmetic, modelled exactly on rationals                           *)

Abs(x) == IF x < 0 THEN -x ELSE x

Min2(a, b) == IF a <= b THEN a ELSE b

Max2(a, b) == IF a >= b THEN a ELSE b

RECURSIVE Gcd(_, _)
Gcd(a, b) == IF b = 0 THEN a ELSE Gcd(b, a % b)

\* the rational n/d (d # 0) in lowest terms, denominator positive
Rat(n, d) ==
    LET g == Gcd(Abs(n), Abs(d))
        s == IF d < 0 THEN -1 ELSE 1
    IN  [n |-> (s * n) \div g, d |-> Abs(d) \div g]

RInt(k) == [n |-> k, d |-> 1]

RAdd(a, b) ==
    LET g == Gcd(a.d, b.d)
    IN  Rat(a.n * (b.d \div g) + b.n * (a.d \div g), (a.d \div g) * b.d)

RNeg(a) == [n |-> -a.n, d |-> a.d]

RSub(a, b) == RAdd(a, RNeg(b))

\* cross-cancel before multiplying, so that intermediate products stay small
RMul(a, b) ==
    LET g1 == Gcd(Abs(a.n), b.d)
        g2 == Gcd(Abs(b.n), a.d)
    IN  Rat((a.n \div g1) * (b.n \div g2), (a.d \div g2) * (b.d \div g1))

\* a / b for b # 0
RDiv(a, b) == RMul(a, Rat(b.d, b.n))

RAbs(a) == [n |-> Abs(a.n), d |-> a.d]

RLt(a, b) == a.n * b.d < b.n * a.d

RLe(a, b) == a.n * b.d <= b.n * a.d

\* Option<T>
None == [tag |-> "None"]

Some(v) == [tag |-> "Some", v |-> v]

\* the unit return of a mutator
Unit == [tag |-> "Unit"]

\* a local of the code: v is computed once and F reads it
Bind(v, F(_)) == F(v)

-----------------------------------------------------------------------------
(* LoadChart (capacity.rs)                                                 *)

\* LoadChart::new
LoadChartNew(boom_length_m) == [boom_length_m |-> boom_length_m, points |-> <<>>]

\* slice::sort_by on radius_m: a stable sort, here by insertion
RECURSIVE InsertByRadius(_, _)
InsertByRadius(sorted, p) ==
    IF sorted = <<>> THEN <<p>>
    ELSE IF sorted[Len(sorted)].radius_m <= p.radius_m THEN Append(sorted, p)
    ELSE Append(InsertByRadius(SubSeq(sorted, 1, Len(sorted) - 1), p),
                sorted[Len(sorted)])

RECURSIVE SortByRadius(_)
SortByRadius(pts) ==
    IF pts = <<>> THEN <<>>
    ELSE InsertByRadius(SortByRadius(SubSeq(pts, 1, Len(pts) - 1)), pts[Len(pts)])

\* LoadChart::add_point: push, then re-sort
AddPoint(chart, radius_m, capacity_kg) ==
    [chart EXCEPT !.points =
        SortByRadius(Append(@, [radius_m |-> radius_m, capacity_kg |-> capacity_kg]))]

\* the loop of get_capacity_at_radius: index of `lower` after the scan (0 = None)
RECURSIVE ScanLower(_, _, _, _)
ScanLower(pts, radius_m, i, lower) ==
    IF i > Len(pts) THEN lower
    ELSE ScanLower(pts, radius_m, i + 1,
            IF pts[i].radius_m <= radius_m
               /\ (lower = 0 \/ pts[i].radius_m > pts[lower].radius_m)
            THEN i ELSE lower)

\* the loop of get_capacity_at_radius: index of `upper` after the scan (0 = None)
RECURSIVE ScanUpper(_, _, _, _)
ScanUpper(pts, radius_m, i, upper) ==
    IF i > Len(pts) THEN upper
    ELSE ScanUpper(pts, radius_m, i + 1,
            IF pts[i].radius_m >= radius_m
               /\ (upper = 0 \/ pts[i].radius_m < pts[upper].radius_m)
            THEN i ELSE upper)

\* 0.01 m, the exact-match threshold on radii, in millimetres
ExactRadiusMm == 10

\* the interpolation arm started from the upper point's capacity
InterpolateFlipped(l, u, radius_m) ==
    RAdd(RInt(u.capacity_kg),
         RMul(Rat(radius_m - l.radius_m, u.radius_m - l.radius_m),
              RInt(u.capacity_kg - l.capacity_kg)))

\* the linear interpolation arm: l.cap + t * (u.cap - l.cap)
Interpolate(l, u, radius_m) ==
    RAdd(RInt(l.capacity_kg),
         RMul(Rat(radius_m - l.radius_m, u.radius_m - l.radius_m),
              RInt(u.capacity_kg - l.capacity_kg)))

\* LoadChart::get_capacity_at_radius
GetCapacityAtRadius(chart, radius_m) ==
    LET pts   == chart.points
        lower == ScanLower(pts, radius_m, 1, 0)
        upper == ScanUpper(pts, radius_m, 1, 0)
    IN  IF pts = <<>> THEN None
        ELSE IF lower # 0 /\ upper # 0
                /\ Abs(pts[lower].radius_m - pts[upper].radius_m) < ExactRadiusMm
             THEN Some(RInt(pts[lower].capacity_kg))
        ELSE IF lower # 0 /\ upper # 0
             THEN Some(Interpolate(pts[lower], pts[upper], radius_m))
        ELSE IF lower # 0 THEN Some(RInt(pts[lower].capacity_kg))
        ELSE IF upper # 0 THEN Some(RInt(pts[upper].capacity_kg))
        ELSE None

-----------------------------------------------------------------------------
(* CapacityChart (capacity.rs).  The HashMap `charts` is the sequence of   *)
(* its entries in iteration order; a de-rating factor is held in percent.  *)

\* format!("{:.1}", boom_length_m): the boom length rounded to 0.1 m (an
\* exact tie goes to the even digit), as a number of decimetres
FormatKey(boom_length_m) ==
    LET q == boom_length_m \div 100
        r == boom_length_m % 100
    IN  IF r < 50 THEN q
        ELSE IF r > 50 THEN q + 1
        ELSE IF q % 2 = 0 THEN q ELSE q + 1

\* CapacityChart::new
CapacityChartNew ==
    [charts |-> <<>>,
     over_side_factor |-> 85,
     over_rear_factor |-> 75,
     dynamic_factor |-> 85,
     outrigger_intermediate_factor |-> 85,
     on_tires_factor |-> 40]

\* a factor field as the f32 it stands for
Factor(pct) == Rat(pct, 100)

\* HashMap::get: the index of the entry under `key` (0 = absent)
MapIndex(charts, key) ==
    IF \E i \in 1..Len(charts) : charts[i].key = key
    THEN CHOOSE i \in 1..Len(charts) : charts[i].key = key
    ELSE 0

\* HashMap::insert: an existing key keeps its slot and takes the new value; a
\* new key lands in the slot `pos` its hash gives it
MapInsert(charts, key, chart, pos) ==
    LET i == MapIndex(charts, key)
        e == [key |-> key, chart |-> chart]
    IN  IF i # 0 THEN [charts EXCEPT ![i] = e]
        ELSE SubSeq(charts, 1, pos - 1) \o <<e>> \o SubSeq(charts, pos, Len(charts))

\* CapacityChart::add_chart
AddChart(self, chart, pos) ==
    [self EXCEPT !.charts = MapInsert(@, FormatKey(chart.boom_length_m), chart, pos)]

\* f32 `%`: the remainder has the sign of the dividend
TruncRem(a, m) == IF a >= 0 THEN a % m ELSE -((-a) % m)

\* f32::rem_euclid
RemEuclid(a, m) ==
    LET r == TruncRem(a, m)
    IN  IF r < 0 THEN r + Abs(m) ELSE r

\* get_swing_factor reading the raw angle, without rem_euclid
GetSwingFactorNoNormalise(self, swing_angle_deg) ==
    LET angle == swing_angle_deg
    IN  IF 45 <= angle /\ angle < 135 THEN Factor(self.over_side_factor)
        ELSE IF 135 <= angle /\ angle < 225 THEN Factor(self.over_rear_factor)
        ELSE IF 225 <= angle /\ angle < 315 THEN Factor(self.over_side_factor)
        ELSE RInt(1)

\* CapacityChart::get_swing_factor
GetSwingFactor(self, swing_angle_deg) ==
    LET angle == RemEuclid(swing_angle_deg, 360)
    IN  IF 45 <= angle /\ angle < 135 THEN Factor(self.over_side_factor)
        ELSE IF 135 <= angle /\ angle < 225 THEN Factor(self.over_rear_factor)
        ELSE IF 225 <= angle /\ angle < 315 THEN Factor(self.over_side_factor)
        ELSE RInt(1)

\* f32::MAX, the initial min_diff of the closest-chart scan
F32Max == 2147483647

\* the loop of find_chart_for_boom_length: index of `closest` after the scan
RECURSIVE ScanClosest(_, _, _, _, _)
ScanClosest(charts, boom_length_m, i, closest, min_diff) ==
    IF i > Len(charts) THEN closest
    ELSE LET diff == Abs(charts[i].chart.boom_length_m - boom_length_m)
         IN  IF diff < min_diff
             THEN ScanClosest(charts, boom_length_m, i + 1, i, diff)
             ELSE ScanClosest(charts, boom_length_m, i + 1, closest, min_diff)

\* CapacityChart::find_chart_for_boom_length: the index of the chart (0 = None)
FindChartForBoomLength(self, boom_length_m) ==
    LET i == MapIndex(self.charts, FormatKey(boom_length_m))
    IN  IF i # 0 THEN i
        ELSE ScanClosest(self.charts, boom_length_m, 1, 0, F32Max)

\* get_capacity with the outrigger de-rating proportional to the extension
GetCapacityProportional(self, boom_length_m, radius_m, swing_angle_deg, outrigger_extension_pct, on_tires) ==
    LET i == FindChartForBoomLength(self, boom_length_m)
        base == IF i = 0 THEN None
                ELSE GetCapacityAtRadius(self.charts[i].chart, radius_m)
    IN  IF base = None THEN None
        ELSE LET c1 == RMul(base.v, GetSwingFactor(self, swing_angle_deg))
                 c2 == IF RLt(outrigger_extension_pct, RInt(1))
                       THEN RMul(c1, outrigger_extension_pct)
                       ELSE c1
                 c3 == IF on_tires THEN RMul(c2, Factor(self.on_tires_factor))
                       ELSE c2
             IN  Some(c3)

\* CapacityChart::get_capacity
GetCapacity(self, boom_length_m, radius_m, swing_angle_deg, outrigger_extension_pct, on_tires) ==
    LET i == FindChartForBoomLength(self, boom_length_m)
        base == IF i = 0 THEN None
                ELSE GetCapacityAtRadius(self.charts[i].chart, radius_m)
    IN  IF base = None THEN None
        ELSE LET c1 == RMul(base.v, GetSwingFactor(self, swing_angle_deg))
                 c2 == IF RLt(outrigger_extension_pct, RInt(1))
                       THEN RMul(c1, Factor(self.outrigger_intermediate_factor))
                       ELSE c1
                 c3 == IF on_tires THEN RMul(c2, Factor(self.on_tires_factor))
                       ELSE c2
             IN  Some(c3)

\* the loop of get_capacity_interpolated: index of `lower_chart` (0 = None)
RECURSIVE ScanLowerChart(_, _, _, _)
ScanLowerChart(charts, boom_length_m, i, lower) ==
    IF i > Len(charts) THEN lower
    ELSE ScanLowerChart(charts, boom_length_m, i + 1,
            IF charts[i].chart.boom_length_m <= boom_length_m
               /\ (lower = 0
                   \/ charts[i].chart.boom_length_m > charts[lower].chart.boom_length_m)
            THEN i ELSE lower)

\* the loop of get_capacity_interpolated: index of `upper_chart` (0 = None)
RECURSIVE ScanUpperChart(_, _, _, _)
ScanUpperChart(charts, boom_length_m, i, upper) ==
    IF i > Len(charts) THEN upper
    ELSE ScanUpperChart(charts, boom_length_m, i + 1,
            IF charts[i].chart.boom_length_m >= boom_length_m
               /\ (upper = 0
                   \/ charts[i].chart.boom_length_m < charts[upper].chart.boom_length_m)
            THEN i ELSE upper)

\* 0.1 m, the same-chart threshold on boom lengths, in millimetres
SameBoomMm == 100

\* the interpolation arm of get_capacity_interpolated
InterpolateBooms(lower, upper, boom_length_m, radius_m) ==
    LET lower_cap == GetCapacityAtRadius(lower, radius_m)
        upper_cap == GetCapacityAtRadius(upper, radius_m)
    IN  IF lower_cap = None \/ upper_cap = None THEN None
        ELSE Some(RAdd(lower_cap.v,
                       RMul(Rat(boom_length_m - lower.boom_length_m,
                                upper.boom_length_m - lower.boom_length_m),
                            RSub(upper_cap.v, lower_cap.v))))

\* get_capacity_interpolated with the outrigger de-rating applied to its result
GetCapacityInterpolatedDerated(self, boom_length_m, radius_m) ==
    LET lo == ScanLowerChart(self.charts, boom_length_m, 1, 0)
        up == ScanUpperChart(self.charts, boom_length_m, 1, 0)
        raw == IF lo # 0 /\ up # 0
               THEN InterpolateBooms(self.charts[lo].chart, self.charts[up].chart,
                                     boom_length_m, radius_m)
               ELSE IF lo # 0 THEN GetCapacityAtRadius(self.charts[lo].chart, radius_m)
               ELSE IF up # 0 THEN GetCapacityAtRadius(self.charts[up].chart, radius_m)
               ELSE None
    IN  IF raw = None THEN None
        ELSE Some(RMul(raw.v, Factor(self.outrigger_intermediate_factor)))

\* CapacityChart::get_capacity_interpolated
GetCapacityInterpolated(self, boom_length_m, radius_m) ==
    LET lo == ScanLowerChart(self.charts, boom_length_m, 1, 0)
        up == ScanUpperChart(self.charts, boom_length_m, 1, 0)
    IN  IF lo # 0 /\ up # 0
           /\ Abs(self.charts[lo].chart.boom_length_m
                  - self.charts[up].chart.boom_length_m) < SameBoomMm
        THEN GetCapacityAtRadius(self.charts[lo].chart, radius_m)
        ELSE IF lo # 0 /\ up # 0
        THEN InterpolateBooms(self.charts[lo].chart, self.charts[up].chart,
                              boom_length_m, radius_m)
        ELSE IF lo # 0 THEN GetCapacityAtRadius(self.charts[lo].chart, radius_m)
        ELSE IF up # 0 THEN GetCapacityAtRadius(self.charts[up].chart, radius_m)
        ELSE None

-----------------------------------------------------------------------------
(* Load charts: the calls on one LoadChart                                 *)

\* most points a chart under construction is given
MaxPoints == 3

PointRadii == {3000, 3005, 10000}

PointCapacities == {100000, 40000}

QueryRadii == {1000, 3000, 3002, 6500, 10000, 12000}

Call(op, args, ret) == [op |-> op, args |-> args, ret |-> ret]

\* the values of the variables a specification does not exercise
IdleChart == lc = LoadChartNew(30000)

IdleCapacity == cc = CapacityChartNew

IdleCrane == cfg = [tag |-> "None"]

IdleRigging == rig = [tag |-> "None"]

IdleGround == gc = [tag |-> "None"]

IdleOutriggers == osys = [tag |-> "None"]

IdleCounterweight == cwc = [tag |-> "None"]

\* the parts of the state the ground, outrigger and counterweight operations
\* work on, untouched
IdleSupport == IdleGround /\ IdleOutriggers /\ IdleCounterweight

InitLoadChart ==
    /\ IdleChart /\ IdleCapacity /\ IdleCrane /\ IdleRigging
    /\ IdleSupport
    /\ out = Call("new", <<>>, Unit)

LcAddPoint ==
    \E r \in PointRadii, c \in PointCapacities :
        /\ Len(lc.points) < MaxPoints
        /\ lc' = AddPoint(lc, r, c)
        /\ out' = Call("add_point", <<r, c>>, Unit)
        /\ UNCHANGED <<cc, cfg, rig, gc, osys, cwc>>

LcGetCapacityAtRadius ==
    \E r \in QueryRadii :
        /\ out' = Call("get_capacity_at_radius", <<r>>, GetCapacityAtRadius(lc, r))
        /\ UNCHANGED <<lc, cc, cfg, rig, gc, osys, cwc>>

NextLoadChart == LcAddPoint \/ LcGetCapacityAtRadius

SpecLoadChart == InitLoadChart /\ [][NextLoadChart]_vars

-----------------------------------------------------------------------------
(* Capacity charts: the calls on one CapacityChart                         *)

Pt(radius_m, capacity_kg) == [radius_m |-> radius_m, capacity_kg |-> capacity_kg]

Chart(boom_length_m, points) == [boom_length_m |-> boom_length_m, points |-> points]

\* the charts handed to add_chart: 30.0 m, 30.04 m (same key as 30.0 m, and
\* without points), 30.07 m (the next key, within 0.1 m of 30.0 m) and 40.0 m
ChartPool ==
    { Chart(30000, <<Pt(10000, 100000)>>),
      Chart(30040, <<>>),
      Chart(30070, <<Pt(10000, 90000)>>),
      Chart(40000, <<Pt(10000, 80000), Pt(20000, 40000)>>) }

QueryBooms == {20000, 30000, 30030, 35000, 45000}

QueryChartRadii == {10000, 15000}

QuerySwings == {0, 90, 180}

AllSwings == {-450, -90, -45, -1, 0, 30, 44, 45, 90, 134, 135, 180, 224, 225,
              270, 314, 315, 359, 360, 405, 495, 540}

QueryExtensions == {RInt(0), Rat(3, 4), RInt(1)}

SideFactors == {85, 80}

\* A query reads the chart and changes nothing but `out`: taken after another
\* query it reaches no state that it does not reach after the last mutator,
\* and the model takes it only there.
AfterMutator == out.ret = Unit

InitCapacity ==
    /\ IdleChart /\ IdleCapacity /\ IdleCrane /\ IdleRigging
    /\ IdleSupport
    /\ out = Call("new", <<>>, Unit)

CcWithOverSideFactor ==
    \E f \in SideFactors :
        /\ cc' = [cc EXCEPT !.over_side_factor = f]
        /\ out' = Call("with_over_side_factor", <<f>>, Unit)
        /\ UNCHANGED <<lc, cfg, rig, gc, osys, cwc>>

CcAddChart ==
    \E chart \in ChartPool, pos \in 1..(Len(cc.charts) + 1) :
        /\ cc' = AddChart(cc, chart, pos)
        /\ out' = Call("add_chart", <<chart>>, Unit)
        /\ UNCHANGED <<lc, cfg, rig, gc, osys, cwc>>

CcGetCapacity ==
    \E b \in QueryBooms, r \in QueryChartRadii, s \in QuerySwings,
       e \in QueryExtensions, t \in BOOLEAN :
        /\ AfterMutator
        /\ out' = Call("get_capacity", <<b, r, s, e, t>>, GetCapacity(cc, b, r, s, e, t))
        /\ UNCHANGED <<lc, cc, cfg, rig, gc, osys, cwc>>

CcGetSwingFactor ==
    \E s \in AllSwings :
        /\ AfterMutator
        /\ out' = Call("get_swing_factor", <<s>>, GetSwingFactor(cc, s))
        /\ UNCHANGED <<lc, cc, cfg, rig, gc, osys, cwc>>

CcGetCapacityInterpolated ==
    \E b \in QueryBooms, r \in QueryChartRadii :
        /\ AfterMutator
        /\ out' = Call("get_capacity_interpolated", <<b, r>>,
                       GetCapacityInterpolated(cc, b, r))
        /\ UNCHANGED <<lc, cc, cfg, rig, gc, osys, cwc>>

NextCapacity ==
    \/ CcWithOverSideFactor
    \/ CcAddChart
    \/ CcGetCapacity
    \/ CcGetSwingFactor
    \/ CcGetCapacityInterpolated

SpecCapacity == InitCapacity /\ [][NextCapacity]_vars

-----------------------------------------------------------------------------
(* Properties of the capacity model                                        *)

\* C3: get_capacity_at_radius(r) is None iff the chart has no points.  With l
\* a nearest point at or below r and u a nearest point at or above r, it is
\* l's capacity when both exist less than 0.01 m apart, the linear
\* interpolation l.cap + (r - l.radius)/(u.radius - l.radius) * (u.cap - l.cap)
\* when both exist, and the boundary point's capacity when r is outside the
\* chart; so it stays between the capacities of the neighbouring points.
\* Points (3,100000),(10,40000) give 100000 at 3 m and 70000 at 6.5 m.
C3_CapacityAtRadius ==
    out.op = "get_capacity_at_radius" =>
        LET pts == lc.points
            r == out.args[1]
            Below == {i \in 1..Len(pts) : pts[i].radius_m <= r}
            Above == {i \in 1..Len(pts) : pts[i].radius_m >= r}
            L == {i \in Below : \A j \in Below : pts[j].radius_m <= pts[i].radius_m}
            U == {i \in Above : \A j \in Above : pts[j].radius_m >= pts[i].radius_m}
            Lin(l, u) == Rat(l.capacity_kg * (u.radius_m - l.radius_m)
                               + (r - l.radius_m) * (u.capacity_kg - l.capacity_kg),
                             u.radius_m - l.radius_m)
            Within(x, a, b) == /\ RLe(RInt(Min2(a, b)), x)
                               /\ RLe(x, RInt(Max2(a, b)))
        IN  /\ (out.ret = None <=> pts = <<>>)
            /\ (L # {} /\ U # {} =>
                    \E l \in L, u \in U :
                        /\ out.ret = Some(IF pts[u].radius_m - pts[l].radius_m < 10
                                          THEN RInt(pts[l].capacity_kg)
                                          ELSE Lin(pts[l], pts[u]))
                        /\ Within(out.ret.v, pts[l].capacity_kg, pts[u].capacity_kg))
            /\ (L # {} /\ U = {} =>
                    \E l \in L : out.ret = Some(RInt(pts[l].capacity_kg)))
            /\ (L = {} /\ U # {} =>
                    \E u \in U : out.ret = Some(RInt(pts[u].capacity_kg)))
            /\ (pts = <<Pt(3000, 100000), Pt(10000, 40000)>> =>
                    /\ (r = 3000 => out.ret = Some(RInt(100000)))
                    /\ (r = 6500 => out.ret = Some(RInt(70000))))

\* an interpolated lookup between two points: 70000 kg at 6.5 m
C3_Witness ==
    /\ out.op = "get_capacity_at_radius"
    /\ out.args = <<6500>>
    /\ lc.points = <<Pt(3000, 100000), Pt(10000, 40000)>>
    /\ out.ret = Some(RInt(70000))

\* C4: get_capacity is None iff there is no chart or the selected chart has
\* no points; otherwise it is base * swing factor * (intermediate factor if
\* ext_pct < 1.0) * (on-tires factor if on_tires), base being the selected
\* chart's capacity at the radius: one flat outrigger multiplier, the same for
\* every ext_pct below 1.0 and absent from 1.0 on.
C4_GetCapacity ==
    out.op = "get_capacity" =>
        LET b == out.args[1]
            r == out.args[2]
            s == out.args[3]
            e == out.args[4]
            t == out.args[5]
            charts == cc.charts
            Idx == 1..Len(charts)
            Keyed == {i \in Idx : charts[i].key = (b + 50) \div 100}
            Dist(i) == Abs(charts[i].chart.boom_length_m - b)
            Cand == IF Keyed # {} THEN Keyed
                    ELSE {i \in Idx : \A j \in Idx : Dist(i) <= Dist(j)}
            a == s % 360
            swing == IF (45 <= a /\ a < 135) \/ (225 <= a /\ a < 315)
                     THEN Rat(cc.over_side_factor, 100)
                     ELSE IF 135 <= a /\ a < 225
                     THEN Rat(cc.over_rear_factor, 100)
                     ELSE RInt(1)
            outr == IF e.n < e.d THEN Rat(cc.outrigger_intermediate_factor, 100)
                    ELSE RInt(1)
            tires == IF t THEN Rat(cc.on_tires_factor, 100) ELSE RInt(1)
        IN  IF Cand = {} THEN out.ret = None
            ELSE \E i \in Cand :
                    LET base == GetCapacityAtRadius(charts[i].chart, r)
                    IN  /\ (out.ret = None <=> charts[i].chart.points = <<>>)
                        /\ (base # None =>
                              out.ret = Some(RMul(RMul(RMul(base.v, swing), outr), tires)))

\* a lookup over the side, partly extended, on tires: all three factors apply
C4_Witness ==
    /\ out.op = "get_capacity"
    /\ out.args = <<35000, 15000, 90, Rat(3, 4), TRUE>>
    /\ Len(cc.charts) = 1
    /\ cc.charts[1].chart.boom_length_m = 40000
    /\ cc.over_side_factor = 85
    /\ out.ret = Some(Rat(17340, 1))

\* C5: the swing factor, on the angle taken modulo 360, is over_side_factor
\* on [45,135) and [225,315), over_rear_factor on [135,225) and 1.0 elsewhere;
\* with the default factors 0 and 30 give 1.0, 90 and 270 give 0.85, 180
\* gives 0.75, and 45, 135, 225, 315 fall to side, rear, side, front.
C5_SwingFactor ==
    out.op = "get_swing_factor" =>
        LET s == out.args[1]
            a == s % 360
            side == Rat(cc.over_side_factor, 100)
            rear == Rat(cc.over_rear_factor, 100)
        IN  /\ out.ret = IF (45 <= a /\ a < 135) \/ (225 <= a /\ a < 315) THEN side
                         ELSE IF 135 <= a /\ a < 225 THEN rear
                         ELSE RInt(1)
            /\ (s \in {0, 30, 315} => out.ret = RInt(1))
            /\ (s \in {45, 225} => out.ret = side)
            /\ (s = 135 => out.ret = rear)
            /\ (cc.over_side_factor = 85 /\ cc.over_rear_factor = 75 =>
                    /\ (s \in {90, 270} => out.ret = Rat(85, 100))
                    /\ (s = 180 => out.ret = Rat(75, 100)))

\* a negative angle, normalised into the left side band
C5_Witness ==
    /\ out.op = "get_swing_factor"
    /\ out.args = <<-90>>
    /\ cc.over_side_factor = 85
    /\ out.ret = Rat(17, 20)

\* C6: get_capacity rests on one chart, the one keyed by the rounded boom
\* length if there is one and else one at minimum boom-length distance, and
\* what it returns is fixed by the set of charts and the boom length: the
\* order in which the map yields its charts does not change it.
C6_SelectionIndependentOfOrder ==
    out.op = "get_capacity" =>
        LET n == Len(cc.charts)
            Orders == {p \in [1..n -> 1..n] : \A i, j \in 1..n : p[i] = p[j] => i = j}
        IN  \A p \in Orders :
                GetCapacity([cc EXCEPT !.charts = [i \in 1..n |-> cc.charts[p[i]]]],
                            out.args[1], out.args[2], out.args[3], out.args[4],
                            out.args[5]) = out.ret

\* C7 as stated: get_capacity_interpolated interpolates linearly, by boom
\* length, between the capacities of the nearest chart at or below and the
\* nearest chart at or above the boom length (one chart when only one side
\* exists, None without charts), stays between the two, and applies no factor.
C7_LinearBetweenCharts ==
    out.op = "get_capacity_interpolated" =>
        LET b == out.args[1]
            r == out.args[2]
            charts == cc.charts
            Idx == 1..Len(charts)
            Len_(i) == charts[i].chart.boom_length_m
            Lo == {i \in Idx : Len_(i) <= b /\ \A j \in Idx : Len_(j) <= b => Len_(j) <= Len_(i)}
            Up == {i \in Idx : Len_(i) >= b /\ \A j \in Idx : Len_(j) >= b => Len_(j) >= Len_(i)}
            Cap(i) == GetCapacityAtRadius(charts[i].chart, r)
        IN  /\ (charts = <<>> => out.ret = None)
            /\ \A lo \in Lo, up \in Up :
                  Cap(lo) # None /\ Cap(up) # None =>
                    /\ out.ret =
                         Some(IF Len_(lo) = Len_(up) THEN Cap(lo).v
                              ELSE RAdd(Cap(lo).v,
                                        RMul(Rat(b - Len_(lo), Len_(up) - Len_(lo)),
                                             RSub(Cap(up).v, Cap(lo).v))))
                    /\ \/ RLe(Cap(lo).v, out.ret.v) /\ RLe(out.ret.v, Cap(up).v)
                       \/ RLe(Cap(up).v, out.ret.v) /\ RLe(out.ret.v, Cap(lo).v)
            /\ \A lo \in Lo : Up = {} => out.ret = Cap(lo)
            /\ \A up \in Up : Lo = {} => out.ret = Cap(up)
            /\ \A f \in {50, 100} :
                  GetCapacityInterpolated(
                      [cc EXCEPT !.over_side_factor = f, !.over_rear_factor = f,
                                 !.outrigger_intermediate_factor = f,
                                 !.on_tires_factor = f], b, r) = out.ret

\* C7 amended: as C7, except that two charts less than 0.1 m apart in boom
\* length count as one: the lower chart's capacity is returned uninterpolated.
C7_LinearBetweenDistinctCharts ==
    out.op = "get_capacity_interpolated" =>
        LET b == out.args[1]
            r == out.args[2]
            charts == cc.charts
            Idx == 1..Len(charts)
            Len_(i) == charts[i].chart.boom_length_m
            Lo == {i \in Idx : Len_(i) <= b /\ \A j \in Idx : Len_(j) <= b => Len_(j) <= Len_(i)}
            Up == {i \in Idx : Len_(i) >= b /\ \A j \in Idx : Len_(j) >= b => Len_(j) >= Len_(i)}
            Cap(i) == GetCapacityAtRadius(charts[i].chart, r)
        IN  /\ (charts = <<>> => out.ret = None)
            /\ \A lo \in Lo, up \in Up :
                  Cap(lo) # None /\ Cap(up) # None =>
                    /\ out.ret =
                         Some(IF Len_(up) - Len_(lo) < 100 THEN Cap(lo).v
                              ELSE RAdd(Cap(lo).v,
                                        RMul(Rat(b - Len_(lo), Len_(up) - Len_(lo)),
                                             RSub(Cap(up).v, Cap(lo).v))))
                    /\ \/ RLe(Cap(lo).v, out.ret.v) /\ RLe(out.ret.v, Cap(up).v)
                       \/ RLe(Cap(up).v, out.ret.v) /\ RLe(out.ret.v, Cap(lo).v)
            /\ \A lo \in Lo : Up = {} => out.ret = Cap(lo)
            /\ \A up \in Up : Lo = {} => out.ret = Cap(up)
            /\ \A f \in {50, 100} :
                  GetCapacityInterpolated(
                      [cc EXCEPT !.over_side_factor = f, !.over_rear_factor = f,
                                 !.outrigger_intermediate_factor = f,
                                 !.on_tires_factor = f], b, r) = out.ret

\* charts 30 m -> 100000 and 40 m -> 80000 give 90000 at 35 m
C7_Witness ==
    /\ out.op = "get_capacity_interpolated"
    /\ out.args = <<35000, 10000>>
    /\ {cc.charts[i].chart.boom_length_m : i \in 1..Len(cc.charts)} = {30000, 40000}
    /\ out.ret = Some(RInt(90000))

-----------------------------------------------------------------------------
(* Crane configuration (configuration.rs, outriggers.rs, counterweight.rs, *)
(* spec.rs, kinematics.rs).  Boom angles are in millidegrees.              *)

\* Result<T, E>
Ok(v) == [tag |-> "Ok", v |-> v]

Err(e) == [tag |-> "Err", e |-> e]

\* f32::to_radians followed by cos, on the angles the model uses (millidegrees);
\* irrational values are rounded to six places
CosDeg(a) ==
    CASE a = 0 -> RInt(1)
      [] a = 60000 -> Rat(1, 2)
      [] a = 85000 -> Rat(87156, 1000000)
      [] a = 90000 -> RInt(0)
      [] a = 180000 -> RInt(-1)
      [] a = 30000 -> Rat(866025, 1000000)
      [] a = 120000 -> Rat(-1, 2)
      [] a = -90000 -> Rat(0, 1000000)
      [] a = -11310 -> Rat(980580, 1000000)
      [] a = -8531 -> Rat(988936, 1000000)
      [] a = -7125 -> Rat(992278, 1000000)
      [] a = 16260 -> Rat(960001, 1000000)
      [] a = 19290 -> Rat(943859, 1000000)
      [] a = 22620 -> Rat(923076, 1000000)
      [] a = 25017 -> Rat(906182, 1000000)
      [] a = 26565 -> Rat(894428, 1000000)
      [] a = 32005 -> Rat(848002, 1000000)
      [] a = 33690 -> Rat(832051, 1000000)
      [] a = 35311 -> Rat(816027, 1000000)
      [] a = 36870 -> Rat(799999, 1000000)
      [] a = 40365 -> Rat(761934, 1000000)
      [] a = 41987 -> Rat(743297, 1000000)
      [] a = 45000 -> Rat(707107, 1000000)
      [] a = 46397 -> Rat(689657, 1000000)
      [] a = 48576 -> Rat(661626, 1000000)
      [] a = 50194 -> Rat(640190, 1000000)
      [] a = 53130 -> Rat(600001, 1000000)
      [] a = 54462 -> Rat(581243, 1000000)
      [] a = 57995 -> Rat(529993, 1000000)
      [] a = 59036 -> Rat(514499, 1000000)

\* f32::to_radians followed by sin
SinDeg(a) ==
    CASE a = 0 -> RInt(0)
      [] a = 60000 -> Rat(866025, 1000000)
      [] a = 85000 -> Rat(996195, 1000000)
      [] a = 90000 -> RInt(1)
      [] a = 180000 -> RInt(0)
      [] a = 30000 -> Rat(1, 2)
      [] a = 120000 -> Rat(866025, 1000000)
      [] a = -90000 -> Rat(-1000000, 1000000)
      [] a = -11310 -> Rat(-196117, 1000000)
      [] a = -8531 -> Rat(-148344, 1000000)
      [] a = -7125 -> Rat(-124034, 1000000)
      [] a = 16260 -> Rat(279997, 1000000)
      [] a = 19290 -> Rat(330350, 1000000)
      [] a = 22620 -> Rat(384618, 1000000)
      [] a = 25017 -> Rat(422887, 1000000)
      [] a = 26565 -> Rat(447213, 1000000)
      [] a = 32005 -> Rat(529993, 1000000)
      [] a = 33690 -> Rat(554699, 1000000)
      [] a = 35311 -> Rat(578014, 1000000)
      [] a = 36870 -> Rat(600001, 1000000)
      [] a = 40365 -> Rat(647655, 1000000)
      [] a = 41987 -> Rat(668962, 1000000)
      [] a = 45000 -> Rat(707107, 1000000)
      [] a = 46397 -> Rat(724136, 1000000)
      [] a = 48576 -> Rat(749834, 1000000)
      [] a = 50194 -> Rat(768216, 1000000)
      [] a = 53130 -> Rat(799999, 1000000)
      [] a = 54462 -> Rat(813730, 1000000)
      [] a = 57995 -> Rat(848002, 1000000)
      [] a = 59036 -> Rat(857491, 1000000)

\* OutriggerPosition::all
OutriggerPositionAll == <<"FrontLeft", "FrontRight", "RearLeft", "RearRight">>

\* OutriggerDeployment
Retracted == [tag |-> "Retracted"]

Extended == [tag |-> "Extended"]

SetDown(jack_extension_m) == [tag |-> "Set", jack_extension_m |-> jack_extension_m]

\* OutriggerConfig::new
OutriggerConfigNew(position, max_extension_m, min_extension_m) ==
    [position |-> position,
     deployment |-> Retracted,
     extension_m |-> max_extension_m,
     max_extension_m |-> max_extension_m,
     min_extension_m |-> min_extension_m]

\* OutriggerConfig::is_deployed
IsDeployed(o) == o.deployment.tag = "Set"

\* OutriggerConfig::validate
OutriggerConfigValidate(o) ==
    IF o.extension_m < o.min_extension_m \/ o.extension_m > o.max_extension_m
    THEN Err([kind |-> "OutriggerExtensionInvalid", extension |-> o.extension_m,
              min |-> o.min_extension_m, max |-> o.max_extension_m])
    ELSE Ok(Unit)

\* OutriggerSystem::new
OutriggerSystemNew(max_extension_m) ==
    LET min_extension == max_extension_m \div 2
    IN  [outriggers |-> [i \in 1..4 |->
                           OutriggerConfigNew(OutriggerPositionAll[i],
                                              max_extension_m, min_extension)],
         all_required |-> TRUE]

\* all_deployed satisfied by one deployed outrigger
AllDeployedAny(sys) ==
    \E i \in 1..Len(sys.outriggers) : IsDeployed(sys.outriggers[i])

\* OutriggerSystem::all_deployed
AllDeployed(sys) ==
    IF sys.all_required
    THEN \A i \in 1..Len(sys.outriggers) : IsDeployed(sys.outriggers[i])
    ELSE \E i \in 1..Len(sys.outriggers) : IsDeployed(sys.outriggers[i])

\* the loop of OutriggerSystem::validate: the first outrigger's error, if any
RECURSIVE ValidateEach(_, _)
ValidateEach(outriggers, i) ==
    IF i > Len(outriggers) THEN Ok(Unit)
    ELSE IF OutriggerConfigValidate(outriggers[i]).tag = "Err"
         THEN OutriggerConfigValidate(outriggers[i])
         ELSE ValidateEach(outriggers, i + 1)

\* OutriggerSystem::validate
OutriggerSystemValidate(sys) ==
    IF ValidateEach(sys.outriggers, 1).tag = "Err" THEN ValidateEach(sys.outriggers, 1)
    ELSE IF sys.all_required /\ ~AllDeployed(sys)
         THEN Err([kind |-> "UnsafeConfiguration",
                   reason |-> "Not all required outriggers are deployed"])
         ELSE Ok(Unit)

\* the jack extension the presets set, in millimetres
PresetJackMm == 500

\* OutriggerSystem::preset_max_extension
PresetMaxExtension(sys) ==
    LET os == sys.outriggers
    IN  [sys EXCEPT !.outriggers =
            [i \in 1..Len(os) |-> [os[i] EXCEPT !.extension_m = os[i].max_extension_m,
                                            !.deployment = SetDown(PresetJackMm)]]]

\* OutriggerSystem::preset_medium_extension
PresetMediumExtension(sys) ==
    LET os == sys.outriggers
    IN  [sys EXCEPT !.outriggers =
            [i \in 1..Len(os) |-> [os[i] EXCEPT !.extension_m = (os[i].max_extension_m * 3) \div 4,
                                            !.deployment = SetDown(PresetJackMm)]]]

\* OutriggerSystem::preset_min_extension
PresetMinExtension(sys) ==
    LET os == sys.outriggers
    IN  [sys EXCEPT !.outriggers =
            [i \in 1..Len(os) |-> [os[i] EXCEPT !.extension_m = os[i].min_extension_m,
                                            !.deployment = SetDown(PresetJackMm)]]]

\* OutriggerSystem::preset_on_tires
PresetOnTires(sys) ==
    LET os == sys.outriggers
    IN  [sys EXCEPT !.outriggers =
            [i \in 1..Len(os) |-> [os[i] EXCEPT !.deployment = Retracted]]]

\* a slab as add_slab and set_slab_count make it: id "slab_<n>", n = index + 1
StandardSlab(self, i) ==
    [id |-> <<"slab_", i + 1>>,
     weight_kg |-> self.standard_slab_weight_kg,
     position_index |-> i]

\* CounterweightConfig::new
CounterweightConfigNew(standard_slab_weight_kg, max_slabs) ==
    [slabs |-> <<>>,
     standard_slab_weight_kg |-> standard_slab_weight_kg,
     max_slabs |-> max_slabs,
     min_counterweight_kg |-> standard_slab_weight_kg,
     max_counterweight_kg |-> standard_slab_weight_kg * max_slabs]

\* the sum of get_total_weight_kg over the first k slabs
RECURSIVE SumWeights(_, _)
SumWeights(slabs, k) ==
    IF k = 0 THEN 0 ELSE SumWeights(slabs, k - 1) + slabs[k].weight_kg

\* CounterweightConfig::get_total_weight_kg
GetTotalWeightKg(self) == SumWeights(self.slabs, Len(self.slabs))

\* CounterweightConfig::get_slab_count
GetSlabCount(self) == Len(self.slabs)

\* add_slab without the test of the ceiling
AddSlabUnchecked(self) ==
    [self |-> [self EXCEPT !.slabs = Append(@, StandardSlab(self, Len(@)))],
     ret |-> Ok(Unit)]

\* CounterweightConfig::add_slab: the configuration after the call, and its result
AddSlab(self) ==
    IF Len(self.slabs) >= self.max_slabs
    THEN [self |-> self,
          ret |-> Err([kind |-> "UnsafeConfiguration",
                       reason |-> <<"Cannot add more than {} counterweight slabs",
                                    self.max_slabs>>])]
    ELSE [self |-> [self EXCEPT !.slabs = Append(@, StandardSlab(self, Len(@)))],
          ret |-> Ok(Unit)]

\* CounterweightConfig::remove_slab
RemoveSlab(self) ==
    IF self.slabs = <<>> THEN [self |-> self, ret |-> None]
    ELSE [self |-> [self EXCEPT !.slabs = SubSeq(@, 1, Len(@) - 1)],
          ret |-> Some(self.slabs[Len(self.slabs)])]

\* set_slab_count clearing the stack before it looks at the count
SetSlabCountClearing(self, count) ==
    IF count > self.max_slabs
    THEN [self |-> [self EXCEPT !.slabs = <<>>],
          ret |-> Err([kind |-> "CounterweightInvalid",
                       weight_kg |-> count * self.standard_slab_weight_kg,
                       min |-> self.min_counterweight_kg,
                       max |-> self.max_counterweight_kg])]
    ELSE [self |-> [self EXCEPT !.slabs = [i \in 1..count |-> StandardSlab(self, i - 1)]],
          ret |-> Ok(Unit)]

\* CounterweightConfig::set_slab_count
SetSlabCount(self, count) ==
    IF count > self.max_slabs
    THEN [self |-> self,
          ret |-> Err([kind |-> "CounterweightInvalid",
                       weight_kg |-> count * self.standard_slab_weight_kg,
                       min |-> self.min_counterweight_kg,
                       max |-> self.max_counterweight_kg])]
    ELSE [self |-> [self EXCEPT !.slabs = [i \in 1..count |-> StandardSlab(self, i - 1)]],
          ret |-> Ok(Unit)]

\* validate testing the upper end of the envelope only
CounterweightValidateNoMinimum(self) ==
    LET total == GetTotalWeightKg(self)
    IN  IF total > self.max_counterweight_kg
        THEN Err([kind |-> "CounterweightInvalid", weight_kg |-> total,
                  min |-> self.min_counterweight_kg, max |-> self.max_counterweight_kg])
        ELSE IF Len(self.slabs) > self.max_slabs
        THEN Err([kind |-> "UnsafeConfiguration",
                  reason |-> <<"Too many counterweight slabs: {} > {}",
                               Len(self.slabs), self.max_slabs>>])
        ELSE Ok(Unit)

\* CounterweightConfig::validate
CounterweightValidate(self) ==
    LET total == GetTotalWeightKg(self)
    IN  IF total < self.min_counterweight_kg \/ total > self.max_counterweight_kg
        THEN Err([kind |-> "CounterweightInvalid", weight_kg |-> total,
                  min |-> self.min_counterweight_kg, max |-> self.max_counterweight_kg])
        ELSE IF Len(self.slabs) > self.max_slabs
        THEN Err([kind |-> "UnsafeConfiguration",
                  reason |-> <<"Too many counterweight slabs: {} > {}",
                               Len(self.slabs), self.max_slabs>>])
        ELSE Ok(Unit)

\* CounterweightConfig::preset_max
CounterweightPresetMax(self) == SetSlabCount(self, self.max_slabs)

\* CounterweightConfig::preset_medium
CounterweightPresetMedium(self) == SetSlabCount(self, self.max_slabs \div 2)

\* CounterweightConfig::preset_min
CounterweightPresetMin(self) == SetSlabCount(self, 1)

\* CapacityChart::example_liebherr_ltm_1100: the three charts of the CSV text,
\* the 40 m and 50 m charts landing in the map slots p40 and p50
ExampleLiebherrLtm1100(p40, p50) ==
    AddChart(
      AddChart(
        AddChart(CapacityChartNew,
                 Chart(30000, <<Pt(3000, 100000), Pt(5000, 80000), Pt(10000, 40000),
                                Pt(15000, 25000), Pt(20000, 15000), Pt(25000, 10000)>>),
                 1),
        Chart(40000, <<Pt(3000, 90000), Pt(5000, 70000), Pt(10000, 35000),
                       Pt(20000, 12000), Pt(30000, 7000), Pt(35000, 5000)>>),
        p40),
      Chart(50000, <<Pt(3000, 80000), Pt(10000, 30000), Pt(20000, 10000),
                     Pt(30000, 6000), Pt(40000, 4000), Pt(45000, 3000)>>),
      p50)

\* CraneSpec::liebherr_ltm_1100
LiebherrLtm1100(p40, p50) ==
    [id |-> "liebherr_ltm_1100_5_2",
     boom_length_range |-> <<15000, 52000>>,
     boom_pivot_height_m |-> 3200,
     max_boom_angle_deg |-> 85000,
     min_boom_angle_deg |-> 0,
     max_radius_m |-> 48000,
     min_radius_m |-> 3000,
     max_tip_height_m |-> 56000,
     outrigger_max_extension_m |-> 7100,
     counterweight_slab_weight_kg |-> 2500,
     counterweight_max_slabs |-> 16,
     capacity_chart |-> ExampleLiebherrLtm1100(p40, p50)]

\* CraneSpec::liebherr_ltm_1500, which ships without a capacity chart
LiebherrLtm1500 ==
    [id |-> "liebherr_ltm_1500_8_1",
     boom_length_range |-> <<15400, 84000>>,
     boom_pivot_height_m |-> 4200,
     max_boom_angle_deg |-> 85000,
     min_boom_angle_deg |-> 0,
     max_radius_m |-> 78000,
     min_radius_m |-> 3500,
     max_tip_height_m |-> 91000,
     outrigger_max_extension_m |-> 9200,
     counterweight_slab_weight_kg |-> 5000,
     counterweight_max_slabs |-> 38,
     capacity_chart |-> CapacityChartNew]

\* CraneSpec::create_outrigger_system
CreateOutriggerSystem(spec) == OutriggerSystemNew(spec.outrigger_max_extension_m)

\* CraneSpec::create_counterweight_config
CreateCounterweightConfig(spec) ==
    CounterweightConfigNew(spec.counterweight_slab_weight_kg, spec.counterweight_max_slabs)

\* f32::atan2(y, x) followed by to_degrees, in millidegrees, on the
\* directions the model meets; atan2(0, 0) is 0
Atan2Deg(y, x) ==
    LET g == Gcd(Abs(y), Abs(x))
        d == IF g = 0 THEN <<0, 0>> ELSE <<y \div g, x \div g>>
    IN  CASE d = <<0, 0>> -> 0
      [] d = <<-3, 20>> -> -8531
      [] d = <<-1, 0>> -> -90000
      [] d = <<-1, 5>> -> -11310
      [] d = <<-1, 8>> -> -7125
      [] d = <<0, 1>> -> 0
      [] d = <<1, 0>> -> 90000
      [] d = <<1, 1>> -> 45000
      [] d = <<1, 2>> -> 26565
      [] d = <<2, 3>> -> 33690
      [] d = <<3, 4>> -> 36870
      [] d = <<4, 3>> -> 53130
      [] d = <<5, 3>> -> 59036
      [] d = <<5, 8>> -> 32005
      [] d = <<5, 12>> -> 22620
      [] d = <<6, 5>> -> 50194
      [] d = <<7, 5>> -> 54462
      [] d = <<7, 15>> -> 25017
      [] d = <<7, 20>> -> 19290
      [] d = <<7, 24>> -> 16260
      [] d = <<8, 5>> -> 57995
      [] d = <<9, 10>> -> 41987
      [] d = <<17, 15>> -> 48576
      [] d = <<17, 20>> -> 40365
      [] d = <<17, 24>> -> 35311
      [] d = <<21, 20>> -> 46397

\* kinematics::calculate_boom_angle_for_height (lengths in whole metres, where
\* the squares and the root of a whole distance are exact in f32)
CalculateBoomAngleForHeight(boom_length_m, target_radius_m, target_hook_height_m, boom_pivot_height_m, hoist_length_m) ==
    LET target_boom_tip_height == target_hook_height_m + hoist_length_m
        height_from_pivot == target_boom_tip_height - boom_pivot_height_m
        distance_squared == target_radius_m * target_radius_m
                            + height_from_pivot * height_from_pivot
    IN  IF boom_length_m < 0 \/ distance_squared > boom_length_m * boom_length_m
        THEN None
        ELSE Some(Atan2Deg(height_from_pivot, target_radius_m))

\* kinematics::calculate_boom_tip_position (swing angle in whole degrees)
CalculateBoomTipPosition(crane_base, boom_length_m, boom_angle_deg, swing_angle_deg, boom_pivot_height_m) ==
    LET horizontal_reach == RMul(RInt(boom_length_m), CosDeg(boom_angle_deg))
        vertical_reach == RMul(RInt(boom_length_m), SinDeg(boom_angle_deg))
        x == RMul(horizontal_reach, SinDeg(swing_angle_deg * 1000))
        y == RMul(horizontal_reach, CosDeg(swing_angle_deg * 1000))
        z == RAdd(RInt(boom_pivot_height_m), vertical_reach)
    IN  <<RAdd(RInt(crane_base[1]), x), RAdd(RInt(crane_base[2]), y),
          RAdd(RInt(crane_base[3]), z)>>

\* kinematics::calculate_hook_position
CalculateHookPosition(crane_base, boom_length_m, boom_angle_deg, swing_angle_deg, boom_pivot_height_m, hoist_length_m) ==
    LET boom_tip == CalculateBoomTipPosition(crane_base, boom_length_m, boom_angle_deg,
                                             swing_angle_deg, boom_pivot_height_m)
    IN  <<boom_tip[1], boom_tip[2], RSub(boom_tip[3], RInt(hoist_length_m))>>

\* CraneConfiguration::new
CraneConfigurationNew(spec) ==
    [spec |-> spec,
     position |-> <<0, 0, 0>>,
     heading_deg |-> 0,
     boom_length_m |-> 30000,
     boom_angle_deg |-> 60000,
     swing_angle_deg |-> 0,
     hoist_length_m |-> 10000,
     outriggers |-> CreateOutriggerSystem(spec),
     counterweight |-> CreateCounterweightConfig(spec)]

\* CraneConfiguration::get_hook_position
GetHookPosition(self) ==
    CalculateHookPosition(self.position, self.boom_length_m, self.boom_angle_deg,
                          self.swing_angle_deg + self.heading_deg,
                          self.spec.boom_pivot_height_m, self.hoist_length_m)

\* CraneConfiguration::get_radius
GetRadius(self) == RMul(RInt(self.boom_length_m), CosDeg(self.boom_angle_deg))

\* CraneConfiguration::get_hook_height
GetHookHeight(self) == GetHookPosition(self)[3]

\* the sum of extension_m / max_extension_m over the first k outriggers
RECURSIVE SumExtensionRatio(_, _)
SumExtensionRatio(outriggers, k) ==
    IF k = 0 THEN RInt(0)
    ELSE RAdd(SumExtensionRatio(outriggers, k - 1),
              Rat(outriggers[k].extension_m, outriggers[k].max_extension_m))

\* get_current_capacity taking a crane on tires for fully extended
GetCurrentCapacityTiresExtended(self) ==
    LET radius == GetRadius(self)
        on_tires == ~AllDeployed(self.outriggers)
        avg_extension ==
            IF on_tires THEN RInt(1)
            ELSE RDiv(SumExtensionRatio(self.outriggers.outriggers,
                                        Len(self.outriggers.outriggers)),
                      RInt(Len(self.outriggers.outriggers)))
    IN  GetCapacity(self.spec.capacity_chart, self.boom_length_m,
                    radius.n \div radius.d, self.swing_angle_deg, avg_extension, on_tires)

\* CraneConfiguration::get_current_capacity.  The chart is read at the radius
\* in whole millimetres.
GetCurrentCapacity(self) ==
    LET radius == GetRadius(self)
        on_tires == ~AllDeployed(self.outriggers)
        avg_extension ==
            IF on_tires THEN RInt(0)
            ELSE RDiv(SumExtensionRatio(self.outriggers.outriggers,
                                        Len(self.outriggers.outriggers)),
                      RInt(Len(self.outriggers.outriggers)))
    IN  GetCapacity(self.spec.capacity_chart, self.boom_length_m,
                    radius.n \div radius.d, self.swing_angle_deg, avg_extension, on_tires)

\* can_lift refusing every load above the safe working load
CanLiftAgainstSafeLoad(self, load_kg) ==
    LET capacity == GetCurrentCapacity(self)
    IN  IF capacity = None
        THEN Err([kind |-> "UnsafeConfiguration",
                  reason |-> "Cannot determine capacity for current configuration"])
        ELSE LET safe_capacity == RMul(capacity.v, Rat(3, 4))
             IN  IF RLt(safe_capacity, RInt(load_kg))
                 THEN Err([kind |-> "LoadExceedsCapacity", load_kg |-> load_kg,
                           capacity_kg |-> capacity.v, radius_m |-> GetRadius(self)])
                 ELSE Ok(RLe(RInt(load_kg), safe_capacity))

\* CraneConfiguration::can_lift
CanLift(self, load_kg) ==
    LET capacity == GetCurrentCapacity(self)
    IN  IF capacity = None
        THEN Err([kind |-> "UnsafeConfiguration",
                  reason |-> "Cannot determine capacity for current configuration"])
        ELSE LET safe_capacity == RMul(capacity.v, Rat(3, 4))
             IN  IF RLt(capacity.v, RInt(load_kg))
                 THEN Err([kind |-> "LoadExceedsCapacity", load_kg |-> load_kg,
                           capacity_kg |-> capacity.v, radius_m |-> GetRadius(self)])
                 ELSE Ok(RLe(RInt(load_kg), safe_capacity))

\* validate checking the outriggers and the counterweight before the geometry
ValidateSubsystemsFirst(self) ==
    LET radius == GetRadius(self)
        height == GetHookHeight(self)
    IN  IF OutriggerSystemValidate(self.outriggers).tag = "Err"
        THEN OutriggerSystemValidate(self.outriggers)
        ELSE IF CounterweightValidate(self.counterweight).tag = "Err"
        THEN CounterweightValidate(self.counterweight)
        ELSE IF \/ self.boom_length_m < self.spec.boom_length_range[1]
                \/ self.boom_length_m > self.spec.boom_length_range[2]
        THEN Err([kind |-> "BoomLengthOutOfRange", current |-> self.boom_length_m,
                  min |-> self.spec.boom_length_range[1],
                  max |-> self.spec.boom_length_range[2]])
        ELSE IF \/ self.boom_angle_deg < self.spec.min_boom_angle_deg
                \/ self.boom_angle_deg > self.spec.max_boom_angle_deg
        THEN Err([kind |-> "BoomAngleInvalid", angle |-> self.boom_angle_deg])
        ELSE IF \/ RLt(radius, RInt(self.spec.min_radius_m))
                \/ RLt(RInt(self.spec.max_radius_m), radius)
        THEN Err([kind |-> "RadiusOutOfRange", current |-> radius,
                  min |-> self.spec.min_radius_m, max |-> self.spec.max_radius_m])
        ELSE IF RLt(RInt(self.spec.max_tip_height_m), height)
        THEN Err([kind |-> "HeightExceeded", current |-> height,
                  max |-> self.spec.max_tip_height_m])
        ELSE Ok(Unit)

\* CraneConfiguration::validate
Validate(self) ==
    LET radius == GetRadius(self)
        height == GetHookHeight(self)
    IN  IF \/ self.boom_length_m < self.spec.boom_length_range[1]
           \/ self.boom_length_m > self.spec.boom_length_range[2]
        THEN Err([kind |-> "BoomLengthOutOfRange", current |-> self.boom_length_m,
                  min |-> self.spec.boom_length_range[1],
                  max |-> self.spec.boom_length_range[2]])
        ELSE IF \/ self.boom_angle_deg < self.spec.min_boom_angle_deg
                \/ self.boom_angle_deg > self.spec.max_boom_angle_deg
        THEN Err([kind |-> "BoomAngleInvalid", angle |-> self.boom_angle_deg])
        ELSE IF \/ RLt(radius, RInt(self.spec.min_radius_m))
                \/ RLt(RInt(self.spec.max_radius_m), radius)
        THEN Err([kind |-> "RadiusOutOfRange", current |-> radius,
                  min |-> self.spec.min_radius_m, max |-> self.spec.max_radius_m])
        ELSE IF RLt(RInt(self.spec.max_tip_height_m), height)
        THEN Err([kind |-> "HeightExceeded", current |-> height,
                  max |-> self.spec.max_tip_height_m])
        ELSE IF OutriggerSystemValidate(self.outriggers).tag = "Err"
        THEN OutriggerSystemValidate(self.outriggers)
        ELSE IF CounterweightValidate(self.counterweight).tag = "Err"
        THEN CounterweightValidate(self.counterweight)
        ELSE Ok(Unit)

-----------------------------------------------------------------------------
(* Crane configurations: assignments to the public fields, the presets,    *)
(* and the queries, on one CraneConfiguration                              *)

\* the cranes a configuration is made for: the LTM 1100 with its charts in
\* insertion order or in the reverse order, and the chartless LTM 1500
LiftSpecs == {LiebherrLtm1100(2, 3), LiebherrLtm1100(1, 1), LiebherrLtm1500}

LiftBooms == {30000, 42000}

LiftAngles == {0, 60000}

LiftSwings == {0, 90, 180}

LiftLoads == {0, 6375, 8500, 18750, 18751, 25000, 25001}

Deployments == {Retracted, Extended, SetDown(PresetJackMm)}

ValidateBooms == {10000, 30000, 50000}

ValidateAngles == {0, 60000, 85000, 90000}

ValidatePositions == {<<0, 0, 0>>, <<0, 0, 20000>>}

ValidateExtensions == {3000, 7100, 8000}

ValidateSlabCounts == {0, 1, 17}

CfgSetBoomLength(S) ==
    \E b \in S :
        /\ cfg' = [cfg EXCEPT !.boom_length_m = b]
        /\ out' = Call("boom_length_m", <<b>>, Unit)
        /\ UNCHANGED <<lc, cc, rig, gc, osys, cwc>>

CfgSetBoomAngle(S) ==
    \E a \in S :
        /\ cfg' = [cfg EXCEPT !.boom_angle_deg = a]
        /\ out' = Call("boom_angle_deg", <<a>>, Unit)
        /\ UNCHANGED <<lc, cc, rig, gc, osys, cwc>>

CfgSetSwingAngle ==
    \E a \in LiftSwings :
        /\ cfg' = [cfg EXCEPT !.swing_angle_deg = a]
        /\ out' = Call("swing_angle_deg", <<a>>, Unit)
        /\ UNCHANGED <<lc, cc, rig, gc, osys, cwc>>

CfgSetPosition ==
    \E p \in ValidatePositions :
        /\ cfg' = [cfg EXCEPT !.position = p]
        /\ out' = Call("position", <<p>>, Unit)
        /\ UNCHANGED <<lc, cc, rig, gc, osys, cwc>>

CfgSetDeployment(I) ==
    \E i \in I, d \in Deployments :
        /\ cfg' = [cfg EXCEPT !.outriggers.outriggers[i].deployment = d]
        /\ out' = Call("deployment", <<i, d>>, Unit)
        /\ UNCHANGED <<lc, cc, rig, gc, osys, cwc>>

CfgSetExtension ==
    \E i \in 1..3, e \in ValidateExtensions :
        /\ cfg' = [cfg EXCEPT !.outriggers.outriggers[i].extension_m = e]
        /\ out' = Call("extension_m", <<i, e>>, Unit)
        /\ UNCHANGED <<lc, cc, rig, gc, osys, cwc>>

CfgPresetMaxExtension ==
    /\ cfg' = [cfg EXCEPT !.outriggers = PresetMaxExtension(@)]
    /\ out' = Call("preset_max_extension", <<>>, Unit)
    /\ UNCHANGED <<lc, cc, rig, gc, osys, cwc>>

CfgPresetMediumExtension ==
    /\ cfg' = [cfg EXCEPT !.outriggers = PresetMediumExtension(@)]
    /\ out' = Call("preset_medium_extension", <<>>, Unit)
    /\ UNCHANGED <<lc, cc, rig, gc, osys, cwc>>

CfgPresetMinExtension ==
    /\ cfg' = [cfg EXCEPT !.outriggers = PresetMinExtension(@)]
    /\ out' = Call("preset_min_extension", <<>>, Unit)
    /\ UNCHANGED <<lc, cc, rig, gc, osys, cwc>>

CfgPresetOnTires ==
    /\ cfg' = [cfg EXCEPT !.outriggers = PresetOnTires(@)]
    /\ out' = Call("preset_on_tires", <<>>, Unit)
    /\ UNCHANGED <<lc, cc, rig, gc, osys, cwc>>

\* a mutator of the counterweight returns a Result: `out.ret` of a mutator
\* is Unit when it succeeded and the error when it did not
CfgSetSlabCount ==
    \E n \in ValidateSlabCounts :
        LET r == SetSlabCount(cfg.counterweight, n)
        IN  /\ cfg' = [cfg EXCEPT !.counterweight = r.self]
            /\ out' = Call("set_slab_count", <<n>>,
                           IF r.ret.tag = "Ok" THEN Unit ELSE r.ret)
            /\ UNCHANGED <<lc, cc, rig, gc, osys, cwc>>

CfgCounterweightPresetMax ==
    LET r == CounterweightPresetMax(cfg.counterweight)
    IN  /\ cfg' = [cfg EXCEPT !.counterweight = r.self]
        /\ out' = Call("preset_max", <<>>, IF r.ret.tag = "Ok" THEN Unit ELSE r.ret)
        /\ UNCHANGED <<lc, cc, rig, gc, osys, cwc>>

CfgGetCurrentCapacity ==
    /\ AfterMutator
    /\ out' = Call("get_current_capacity", <<>>, GetCurrentCapacity(cfg))
    /\ UNCHANGED <<lc, cc, cfg, rig, gc, osys, cwc>>

CfgCanLift ==
    \E load_kg \in LiftLoads :
        /\ AfterMutator
        /\ out' = Call("can_lift", <<load_kg>>, CanLift(cfg, load_kg))
        /\ UNCHANGED <<lc, cc, cfg, rig, gc, osys, cwc>>

CfgValidate ==
    /\ AfterMutator
    /\ out' = Call("validate", <<>>, Validate(cfg))
    /\ UNCHANGED <<lc, cc, cfg, rig, gc, osys, cwc>>

InitLift ==
    /\ IdleChart /\ IdleCapacity /\ IdleRigging
    /\ IdleSupport
    /\ \E spec \in LiftSpecs : cfg = CraneConfigurationNew(spec)
    /\ out = Call("new", <<>>, Unit)

NextLift ==
    \/ CfgSetBoomLength(LiftBooms)
    \/ CfgSetBoomAngle(LiftAngles)
    \/ CfgSetSwingAngle
    \/ CfgSetDeployment(1..4)
    \/ CfgPresetMaxExtension
    \/ CfgPresetMediumExtension
    \/ CfgPresetMinExtension
    \/ CfgPresetOnTires
    \/ CfgGetCurrentCapacity
    \/ CfgCanLift

SpecLift == InitLift /\ [][NextLift]_vars

InitValidate ==
    /\ IdleChart /\ IdleCapacity /\ IdleRigging
    /\ IdleSupport
    /\ cfg = CraneConfigurationNew(LiebherrLtm1100(2, 3))
    /\ out = Call("new", <<>>, Unit)

NextValidate ==
    \/ CfgSetBoomLength(ValidateBooms)
    \/ CfgSetBoomAngle(ValidateAngles)
    \/ CfgSetPosition
    \/ CfgSetDeployment({4})
    \/ CfgSetExtension
    \/ CfgPresetMaxExtension
    \/ CfgPresetOnTires
    \/ CfgSetSlabCount
    \/ CfgCounterweightPresetMax
    \/ CfgValidate

SpecValidate == InitValidate /\ [][NextValidate]_vars

-----------------------------------------------------------------------------
(* Properties of the crane configuration                                   *)

\* C1: can_lift(load) is Err(LoadExceedsCapacity) exactly when the load
\* exceeds the capacity of the current configuration (before the 0.75 safe
\* working load factor); otherwise Ok(true) when load <= 0.75 * capacity and
\* Ok(false) when 0.75 * capacity < load <= capacity; and it is an error, never
\* Ok, when no capacity can be determined.
C1_CanLift ==
    out.op = "can_lift" =>
        LET load == RInt(out.args[1])
            capacity == GetCurrentCapacity(cfg)
            Exceeds == out.ret.tag = "Err" /\ out.ret.e.kind = "LoadExceedsCapacity"
        IN  IF capacity = None THEN out.ret.tag = "Err" /\ ~Exceeds
            ELSE LET safe == RMul(Rat(75, 100), capacity.v)
                 IN  /\ Exceeds <=> RLt(capacity.v, load)
                     /\ RLe(load, safe) => out.ret = Ok(TRUE)
                     /\ RLt(safe, load) /\ RLe(load, capacity.v) => out.ret = Ok(FALSE)
                     /\ out.ret.tag = "Err" => Exceeds

\* a load between the safe working load (18750 kg) and the capacity (25000 kg)
C1_Witness ==
    /\ out.op = "can_lift"
    /\ out.args = <<18751>>
    /\ GetCurrentCapacity(cfg) = Some(RInt(25000))
    /\ out.ret = Ok(FALSE)

\* C2: validate is Ok iff no constraint is violated, and otherwise returns the
\* error of the first violated constraint in the order boom length range, boom
\* angle range, radius range, hook height, the extension range of each
\* outrigger in list order, required deployment, counterweight; never more
\* than that one error.
C2_ValidateFailFast ==
    out.op = "validate" =>
        LET spec == cfg.spec
            os == cfg.outriggers.outriggers
            cw == cfg.counterweight
            radius == RMul(RInt(cfg.boom_length_m), CosDeg(cfg.boom_angle_deg))
            height == RAdd(RInt(cfg.position[3] + spec.boom_pivot_height_m
                                - cfg.hoist_length_m),
                           RMul(RInt(cfg.boom_length_m), SinDeg(cfg.boom_angle_deg)))
            BadExtension(i) == \/ os[i].extension_m < os[i].min_extension_m
                               \/ os[i].extension_m > os[i].max_extension_m
            weight == Len(cw.slabs) * cw.standard_slab_weight_kg
            Constraints ==
                << [violated |-> \/ cfg.boom_length_m < spec.boom_length_range[1]
                                 \/ cfg.boom_length_m > spec.boom_length_range[2],
                    kind |-> "BoomLengthOutOfRange"],
                   [violated |-> \/ cfg.boom_angle_deg < spec.min_boom_angle_deg
                                 \/ cfg.boom_angle_deg > spec.max_boom_angle_deg,
                    kind |-> "BoomAngleInvalid"],
                   [violated |-> \/ RLt(radius, RInt(spec.min_radius_m))
                                 \/ RLt(RInt(spec.max_radius_m), radius),
                    kind |-> "RadiusOutOfRange"],
                   [violated |-> RLt(RInt(spec.max_tip_height_m), height),
                    kind |-> "HeightExceeded"],
                   [violated |-> BadExtension(1), kind |-> "OutriggerExtensionInvalid"],
                   [violated |-> BadExtension(2), kind |-> "OutriggerExtensionInvalid"],
                   [violated |-> BadExtension(3), kind |-> "OutriggerExtensionInvalid"],
                   [violated |-> BadExtension(4), kind |-> "OutriggerExtensionInvalid"],
                   [violated |-> \E i \in 1..4 : os[i].deployment.tag # "Set",
                    kind |-> "UnsafeConfiguration"],
                   [violated |-> \/ weight < cw.min_counterweight_kg
                                 \/ weight > cw.max_counterweight_kg,
                    kind |-> "CounterweightInvalid"],
                   [violated |-> Len(cw.slabs) > cw.max_slabs,
                    kind |-> "UnsafeConfiguration"] >>
            N == Len(Constraints)
            First == {i \in 1..N : /\ Constraints[i].violated
                                   /\ \A j \in 1..(i - 1) : ~Constraints[j].violated}
        IN  /\ out.ret = Ok(Unit) <=> \A i \in 1..N : ~Constraints[i].violated
            /\ \A i \in First :
                  /\ out.ret.tag = "Err"
                  /\ out.ret.e.kind = Constraints[i].kind
                  /\ i \in 5..8 => out.ret.e.extension = os[i - 4].extension_m
                  /\ i = 9 => out.ret.e.reason = "Not all required outriggers are deployed"

\* the hook too high, the second outrigger over-extended and no counterweight:
\* only the height is reported
C2_Witness ==
    /\ out.op = "validate"
    /\ cfg.boom_length_m = 50000
    /\ cfg.boom_angle_deg = 60000
    /\ cfg.position = <<0, 0, 20000>>
    /\ cfg.outriggers.outriggers[2].extension_m = 8000
    /\ cfg.counterweight.slabs = <<>>
    /\ out.ret.tag = "Err"
    /\ out.ret.e.kind = "HeightExceeded"

-----------------------------------------------------------------------------
(* Rigging (rigging.rs).  Points and vectors are triples; the points of    *)
(* the input are in whole millimetres, unit vectors are triples of         *)
(* rationals.  Sling angles are in millidegrees.                           *)

\* HitchType::capacity_factor
CapacityFactor(hitch_type) ==
    CASE hitch_type = "Vertical" -> RInt(1)
      [] hitch_type = "Choker" -> Rat(75, 100)
      [] hitch_type = "Basket" -> RInt(2)
      [] hitch_type = "Bridle" -> RInt(1)

\* the largest r in lo..hi with r * r <= n
RECURSIVE SqrtSearch(_, _, _)
SqrtSearch(n, lo, hi) ==
    IF lo >= hi THEN lo
    ELSE LET mid == (lo + hi + 1) \div 2
         IN  IF mid * mid <= n THEN SqrtSearch(n, mid, hi)
             ELSE SqrtSearch(n, lo, mid - 1)

\* Vector3::norm; the inputs of the model have whole norms
Norm(v) == SqrtSearch(v[1] * v[1] + v[2] * v[2] + v[3] * v[3], 0, 46340)

\* Point3 - Point3
Minus(p, q) == <<p[1] - q[1], p[2] - q[2], p[3] - q[3]>>

\* Vector3::normalize, of a vector that is not zero
Normalize(v) ==
    LET norm == Norm(v)
    IN  <<Rat(v[1], norm), Rat(v[2], norm), Rat(v[3], norm)>>

\* Vector3::dot
Dot(u, v) == RAdd(RAdd(RMul(u[1], v[1]), RMul(u[2], v[2])), RMul(u[3], v[3]))

\* f32::acos followed by to_degrees, on the cosines the model meets
AcosDeg(c) ==
    CASE c = RInt(1) -> 0
      [] c = Rat(4, 5) -> 36870
      [] c = Rat(3, 5) -> 53130
      [] c = Rat(1, 10) -> 84261
      [] c = Rat(2, 25) -> 85411
      [] c = Rat(3, 50) -> 86560

\* f32::to_radians followed by cos, on the sling angles AcosDeg yields
CosSlingDeg(a) ==
    CASE a = 0 -> RInt(1)
      [] a = 36870 -> Rat(4, 5)
      [] a = 53130 -> Rat(3, 5)
      [] a = 84261 -> Rat(1, 10)
      [] a = 85411 -> Rat(2, 25)
      [] a = 86560 -> Rat(3, 50)

\* a float that is not a number
NaN == [tag |-> "NaN"]

\* 0.001 m, the threshold on lengths, in millimetres
TooShortMm == 1

\* the sling vector of analyze_single_sling and of the solvers
SlingVector(sling) == Minus(sling.hook_point, sling.attachment_point)

\* RiggingCalculator::angle_capacity_factor
AngleCapacityFactor(angle_from_vertical_deg) == CosSlingDeg(angle_from_vertical_deg)

\* the `vertical` of analyze_single_sling
VerticalOfAnalyze == <<RInt(0), RInt(0), Rat(1, 10)>>

\* RiggingCalculator::analyze_single_sling, for a sling that does not hang
\* below the horizontal (its capacity is then positive)
AnalyzeSingleSling(sling, tension_kg) ==
    LET sling_vector == SlingVector(sling)
    IN  IF Norm(sling_vector) < TooShortMm
        THEN Err([kind |-> "InvalidConfiguration", msg |-> "Sling length too short"])
        ELSE Bind(AcosDeg(Dot(Normalize(sling_vector), VerticalOfAnalyze)),
             LAMBDA angle_deg :
             Bind(RMul(RMul(RInt(sling.spec.rated_capacity_kg),
                            AngleCapacityFactor(angle_deg)),
                       CapacityFactor(sling.hitch_type)),
             LAMBDA capacity_kg :
             Bind(IF tension_kg = NaN THEN NaN
                  ELSE RMul(RDiv(tension_kg, capacity_kg), RInt(100)),
             LAMBDA utilization_percent :
                 Ok([sling_id |-> sling.spec.id,
                     tension_kg |-> tension_kg,
                     tension_kn |-> IF tension_kg = NaN THEN NaN
                                    ELSE RDiv(RMul(tension_kg, Rat(981, 100)), RInt(1000)),
                     angle_from_vertical_deg |-> angle_deg,
                     capacity_kg |-> capacity_kg,
                     utilization_percent |-> utilization_percent,
                     is_safe |-> /\ utilization_percent # NaN
                                 /\ RLe(utilization_percent, RInt(100))]))))

\* RiggingCalculator::calculate_sling_angle, of a sling that is not of length 0
CalculateSlingAngle(sling) ==
    AcosDeg(Dot(Normalize(SlingVector(sling)), <<RInt(0), RInt(0), RInt(1)>>))

\* a Vec collected from an iterator: every element is computed once, here
Collect(f) == f \o <<>>

\* the gravitational constant G of the solvers
G == Rat(981, 100)

\* solve_two_sling_system without the adjustment for the sling angles
SolveTwoSlingSystemUnadjusted(load, slings) ==
    LET cog == load.center_of_gravity
        weight == RInt(load.weight_kg)
        r1 == Norm(Minus(slings[1].attachment_point, cog))
        r2 == Norm(Minus(slings[2].attachment_point, cog))
        t1 == RDiv(RMul(weight, RInt(r2)), RInt(r1 + r2))
        t2 == RDiv(RMul(weight, RInt(r1)), RInt(r1 + r2))
        Adjusted(t, sling) ==
            IF Norm(SlingVector(sling)) = 0 THEN NaN
            ELSE t
    IN  IF r1 + r2 < TooShortMm
        THEN Err([kind |-> "InvalidConfiguration",
                  msg |-> "Pick points too close to center of gravity"])
        ELSE Ok(<<Adjusted(t1, slings[1]), Adjusted(t2, slings[2])>>)

\* RiggingCalculator::solve_two_sling_system.  The angle of a sling of length
\* 0 is NaN, and so is its tension.
SolveTwoSlingSystem(load, slings) ==
    LET cog == load.center_of_gravity
        weight == RInt(load.weight_kg)
        r1 == Norm(Minus(slings[1].attachment_point, cog))
        r2 == Norm(Minus(slings[2].attachment_point, cog))
        t1 == RDiv(RMul(weight, RInt(r2)), RInt(r1 + r2))
        t2 == RDiv(RMul(weight, RInt(r1)), RInt(r1 + r2))
        Adjusted(t, sling) ==
            IF Norm(SlingVector(sling)) = 0 THEN NaN
            ELSE RDiv(t, CosSlingDeg(CalculateSlingAngle(sling)))
    IN  IF r1 + r2 < TooShortMm
        THEN Err([kind |-> "InvalidConfiguration",
                  msg |-> "Pick points too close to center of gravity"])
        ELSE Ok(<<Adjusted(t1, slings[1]), Adjusted(t2, slings[2])>>)

\* Matrix3::determinant, of the matrix with rows m[1], m[2], m[3]
Determinant(m) ==
    RAdd(RSub(RMul(m[1][1], RSub(RMul(m[2][2], m[3][3]), RMul(m[2][3], m[3][2]))),
              RMul(m[1][2], RSub(RMul(m[2][1], m[3][3]), RMul(m[2][3], m[3][1])))),
         RMul(m[1][3], RSub(RMul(m[2][1], m[3][2]), RMul(m[2][2], m[3][1]))))

\* the cofactor of entry (r, c)
Cofactor(m, r, c) ==
    LET R == IF r = 1 THEN <<2, 3>> ELSE IF r = 2 THEN <<1, 3>> ELSE <<1, 2>>
        C == IF c = 1 THEN <<2, 3>> ELSE IF c = 2 THEN <<1, 3>> ELSE <<1, 2>>
        minor == RSub(RMul(m[R[1]][C[1]], m[R[2]][C[2]]),
                      RMul(m[R[1]][C[2]], m[R[2]][C[1]]))
    IN  IF (r + c) % 2 = 0 THEN minor ELSE RNeg(minor)

\* Matrix3::try_inverse: the adjugate over the determinant
TryInverse(m) ==
    Bind(Determinant(m), LAMBDA determinant :
        IF determinant = RInt(0) THEN None
        ELSE Some(Collect([r \in 1..3 |->
                     Collect([c \in 1..3 |-> RDiv(Cofactor(m, c, r), determinant)])])))

\* Matrix3 * Vector3
MatVec(m, v) == <<Dot(m[1], v), Dot(m[2], v), Dot(m[3], v)>>

\* 1e-6, the threshold on the determinant
DetEpsilon == Rat(1, 1000000)

\* solve_three_sling_system without the test on the determinant
SolveThreeSlingSystemUnchecked(load, slings) ==
    LET load_force == <<RInt(0), RInt(0), RNeg(RMul(RInt(load.weight_kg), G))>>
    IN  IF \E i \in 1..3 : Norm(SlingVector(slings[i])) = 0
        THEN Ok(<<NaN, NaN, NaN>>)
        ELSE
        Bind(Collect([i \in 1..3 |-> Normalize(SlingVector(slings[i]))]), LAMBDA unit :
        Bind(Collect([r \in 1..3 |-> Collect([c \in 1..3 |-> unit[c][r]])]),
        LAMBDA a_matrix :
        IF FALSE
        THEN Err([kind |-> "InvalidConfiguration",
                  msg |-> "Slings are coplanar or collinear - cannot solve"])
        ELSE
        Bind(TryInverse(a_matrix), LAMBDA inverse :
        IF inverse = None
        THEN Err([kind |-> "MathError", msg |-> "Cannot invert sling geometry matrix"])
        ELSE
        Bind(MatVec(inverse.v, <<RNeg(load_force[1]), RNeg(load_force[2]),
                                 RNeg(load_force[3])>>),
        LAMBDA tensions_n :
        Bind(Collect([i \in 1..3 |-> RAbs(RDiv(tensions_n[i], G))]),
        LAMBDA tensions_kg :
        IF \E i \in 1..3 : RLt(tensions_kg[i], RInt(0))
        THEN Err([kind |-> "InvalidConfiguration",
                  msg |-> "Configuration produces negative tension - check pick point locations"])
        ELSE Ok(tensions_kg))))))

\* RiggingCalculator::solve_three_sling_system.  The unit vector of a sling of
\* length 0 is NaN, and with it the determinant, which then passes the
\* threshold test, and every tension.
SolveThreeSlingSystem(load, slings) ==
    LET load_force == <<RInt(0), RInt(0), RNeg(RMul(RInt(load.weight_kg), G))>>
    IN  IF \E i \in 1..3 : Norm(SlingVector(slings[i])) = 0
        THEN Ok(<<NaN, NaN, NaN>>)
        ELSE
        Bind(Collect([i \in 1..3 |-> Normalize(SlingVector(slings[i]))]), LAMBDA unit :
        Bind(Collect([r \in 1..3 |-> Collect([c \in 1..3 |-> unit[c][r]])]),
        LAMBDA a_matrix :
        IF RLt(RAbs(Determinant(a_matrix)), DetEpsilon)
        THEN Err([kind |-> "InvalidConfiguration",
                  msg |-> "Slings are coplanar or collinear - cannot solve"])
        ELSE
        Bind(TryInverse(a_matrix), LAMBDA inverse :
        IF inverse = None
        THEN Err([kind |-> "MathError", msg |-> "Cannot invert sling geometry matrix"])
        ELSE
        Bind(MatVec(inverse.v, <<RNeg(load_force[1]), RNeg(load_force[2]),
                                 RNeg(load_force[3])>>),
        LAMBDA tensions_n :
        Bind(Collect([i \in 1..3 |-> RAbs(RDiv(tensions_n[i], G))]),
        LAMBDA tensions_kg :
        IF \E i \in 1..3 : RLt(tensions_kg[i], RInt(0))
        THEN Err([kind |-> "InvalidConfiguration",
                  msg |-> "Configuration produces negative tension - check pick point locations"])
        ELSE Ok(tensions_kg))))))

\* the sum of the first k rationals of a sequence
RECURSIVE RSum(_, _)
RSum(xs, k) == IF k = 0 THEN RInt(0) ELSE RAdd(RSum(xs, k - 1), xs[k])

\* Vector3::cross
Cross(u, v) ==
    <<RSub(RMul(u[2], v[3]), RMul(u[3], v[2])),
      RSub(RMul(u[3], v[1]), RMul(u[1], v[3])),
      RSub(RMul(u[1], v[2]), RMul(u[2], v[1]))>>

\* SVD::solve on the normal equations (A^T A) T = A^T b with singular values
\* up to 1e-6 taken as zero: the least-squares solution of least norm, A^+ b.
\* `unit` holds the columns of A.  With A of rank 3, A^+ b = A^T (A A^T)^-1 b;
\* with the columns in one plane of normal c, A^+ b = A^T (A A^T + c c^T)^-1 b;
\* with the columns on one line u, A^+ b = A^T u (u . b) / n.
LeastNormSolve(unit, b) ==
    LET n == Len(unit)
        zero == <<RInt(0), RInt(0), RInt(0)>>
    IN
    Bind(Collect([r \in 1..3 |-> Collect([c \in 1..3 |->
             RSum(Collect([k \in 1..n |-> RMul(unit[k][r], unit[k][c])]), n)])]),
    LAMBDA gram :
    Bind({p \in (1..n) \X (1..n) : Cross(unit[p[1]], unit[p[2]]) # zero},
    LAMBDA Skew :
    Bind(IF Determinant(gram) # RInt(0)
         THEN MatVec(TryInverse(gram).v, b)
         ELSE IF Skew # {}
         THEN Bind(CHOOSE q \in Skew : TRUE, LAMBDA p :
              Bind(Cross(unit[p[1]], unit[p[2]]), LAMBDA c :
              Bind(Collect([r \in 1..3 |-> Collect([k \in 1..3 |->
                       RAdd(gram[r][k], RMul(c[r], c[k]))])]),
              LAMBDA full : MatVec(TryInverse(full).v, b))))
         ELSE Bind(RDiv(Dot(unit[1], b), RInt(n)), LAMBDA s :
                  <<RMul(unit[1][1], s), RMul(unit[1][2], s), RMul(unit[1][3], s)>>),
    LAMBDA x : Collect([i \in 1..n |-> Dot(unit[i], x)]))))

\* solve_multi_sling_system returning the solved forces with their signs
SolveMultiSlingSystemSigned(load, slings) ==
    LET n_slings == Len(slings)
        unit == Collect([i \in 1..n_slings |-> Normalize(SlingVector(slings[i]))])
        load_vec == <<RInt(0), RInt(0), RNeg(RMul(RInt(load.weight_kg), G))>>
    IN  Bind(LeastNormSolve(unit, load_vec), LAMBDA tensions_n :
            Ok(Collect([i \in 1..n_slings |-> RDiv(tensions_n[i], G)])))

\* RiggingCalculator::solve_multi_sling_system, for slings that are not of
\* length 0.  SVD::solve fails only on a negative threshold or on missing
\* factors, and the call gives it neither.
SolveMultiSlingSystem(load, slings) ==
    LET n_slings == Len(slings)
        unit == Collect([i \in 1..n_slings |-> Normalize(SlingVector(slings[i]))])
        load_vec == <<RInt(0), RInt(0), RNeg(RMul(RInt(load.weight_kg), G))>>
    IN  Bind(LeastNormSolve(unit, load_vec), LAMBDA tensions_n :
            Ok(Collect([i \in 1..n_slings |-> RAbs(RDiv(tensions_n[i], G))])))

\* the loops of calculate_sling_tensions: the analyses of the first k slings,
\* or the first error among them
RECURSIVE AnalyzeEach(_, _, _)
AnalyzeEach(slings, tensions, k) ==
    IF k = 0 THEN Ok(<<>>)
    ELSE Bind(AnalyzeEach(slings, tensions, k - 1), LAMBDA before :
         Bind(AnalyzeSingleSling(slings[k], tensions[k]), LAMBDA this :
             IF before.tag = "Err" THEN before
             ELSE IF this.tag = "Err" THEN this
             ELSE Ok(Append(before.v, this.v))))

\* the largest number of slings calculate_sling_tensions solves
MaxSupportedSlings == 6

\* calculate_sling_tensions giving a single sling the load over the cosine
CalculateSlingTensionsAngled(load, slings, hook_position) ==
    LET n == Len(slings)
        tensions ==
            IF n = 1 THEN Ok(<<RDiv(RInt(load.weight_kg),
                                    CosSlingDeg(CalculateSlingAngle(slings[1])))>>)
            ELSE IF n = 2 THEN SolveTwoSlingSystem(load, slings)
            ELSE IF n = 3 THEN SolveThreeSlingSystem(load, slings)
            ELSE SolveMultiSlingSystem(load, slings)
    IN  IF slings = <<>> THEN Err([kind |-> "InsufficientPickPoints"])
        ELSE IF n > MaxSupportedSlings
        THEN Err([kind |-> "InvalidConfiguration",
                  msg |-> "Too many slings (max 6 supported)"])
        ELSE Bind(tensions, LAMBDA solved :
                 IF solved.tag = "Err" THEN solved
                 ELSE AnalyzeEach(slings, solved.v, n))

\* RiggingCalculator::calculate_sling_tensions
CalculateSlingTensions(load, slings, hook_position) ==
    LET n == Len(slings)
        tensions ==
            IF n = 1 THEN Ok(<<RInt(load.weight_kg)>>)
            ELSE IF n = 2 THEN SolveTwoSlingSystem(load, slings)
            ELSE IF n = 3 THEN SolveThreeSlingSystem(load, slings)
            ELSE SolveMultiSlingSystem(load, slings)
    IN  IF slings = <<>> THEN Err([kind |-> "InsufficientPickPoints"])
        ELSE IF n > MaxSupportedSlings
        THEN Err([kind |-> "InvalidConfiguration",
                  msg |-> "Too many slings (max 6 supported)"])
        ELSE Bind(tensions, LAMBDA solved :
                 IF solved.tag = "Err" THEN solved
                 ELSE AnalyzeEach(slings, solved.v, n))

\* f32 infinities
PInf == [tag |-> "+inf"]

NInf == [tag |-> "-inf"]

\* f32 `/` of two rationals; a zero is +0.0, the only zero a tension or a
\* capacity of the model takes
FDiv(a, b) ==
    IF b.n # 0 THEN RDiv(a, b)
    ELSE IF a.n > 0 THEN PInf
    ELSE IF a.n < 0 THEN NInf
    ELSE NaN

\* f32 `<`: false on NaN
FLt(a, b) ==
    IF a = NaN \/ b = NaN THEN FALSE
    ELSE IF a = PInf \/ b = NInf THEN FALSE
    ELSE IF a = NInf \/ b = PInf THEN TRUE
    ELSE RLt(a, b)

\* f32 `>=`: false on NaN
FGe(a, b) ==
    IF a = NaN \/ b = NaN THEN FALSE
    ELSE IF a = PInf \/ b = NInf THEN TRUE
    ELSE IF a = NInf \/ b = PInf THEN FALSE
    ELSE RLe(b, a)

\* the loop of analyze_safety: min_safety_factor and critical_sling_id after
\* the first k slings
RECURSIVE ScanSafety(_, _)
ScanSafety(tensions, k) ==
    IF k = 0 THEN [min_safety_factor |-> PInf, critical_sling_id |-> None]
    ELSE Bind(ScanSafety(tensions, k - 1), LAMBDA before :
         Bind(FDiv(tensions[k].capacity_kg, tensions[k].tension_kg), LAMBDA sf :
             IF FLt(sf, before.min_safety_factor)
             THEN [min_safety_factor |-> sf,
                   critical_sling_id |-> Some(tensions[k].sling_id)]
             ELSE before))

\* the loop of analyze_safety taking a sling that ties with the minimum
RECURSIVE ScanSafetyTies(_, _)
ScanSafetyTies(tensions, k) ==
    IF k = 0 THEN [min_safety_factor |-> PInf, critical_sling_id |-> None]
    ELSE Bind(ScanSafetyTies(tensions, k - 1), LAMBDA before :
         Bind(FDiv(tensions[k].capacity_kg, tensions[k].tension_kg), LAMBDA sf :
             IF ~FLt(before.min_safety_factor, sf)
             THEN [min_safety_factor |-> sf,
                   critical_sling_id |-> Some(tensions[k].sling_id)]
             ELSE before))

\* the safety factor a configuration must reach
RequiredSafetyFactor == 5

\* analyze_safety with the critical sling the last one attaining the minimum
AnalyzeSafetyLastCritical(load, tensions, hook_position) ==
    Bind(ScanSafetyTies(tensions, Len(tensions)), LAMBDA scan :
        [overall_safety_factor |-> scan.min_safety_factor,
         critical_sling_id |-> scan.critical_sling_id,
         is_configuration_safe |-> FGe(scan.min_safety_factor, RInt(RequiredSafetyFactor)),
         cog_offset_from_hook_m |-> Minus(hook_position, load.center_of_gravity)])

\* RiggingCalculator::analyze_safety
AnalyzeSafety(load, tensions, hook_position) ==
    Bind(ScanSafety(tensions, Len(tensions)), LAMBDA scan :
        [overall_safety_factor |-> scan.min_safety_factor,
         critical_sling_id |-> scan.critical_sling_id,
         is_configuration_safe |-> FGe(scan.min_safety_factor, RInt(RequiredSafetyFactor)),
         cog_offset_from_hook_m |-> Minus(hook_position, load.center_of_gravity)])

\* the sum of the tensions of the first k analyses; NaN once one is NaN
RECURSIVE TotalTension(_, _)
TotalTension(tensions, k) ==
    IF k = 0 THEN RInt(0)
    ELSE Bind(TotalTension(tensions, k - 1), LAMBDA before :
             IF before = NaN \/ tensions[k].tension_kg = NaN THEN NaN
             ELSE RAdd(before, tensions[k].tension_kg))

\* the loop of check_balance: weighted_center after the first k slings, in
\* millimetres
RECURSIVE WeightedCenter(_, _, _, _)
WeightedCenter(slings, tensions, total_tension, k) ==
    IF k = 0 THEN <<RInt(0), RInt(0), RInt(0)>>
    ELSE Bind(WeightedCenter(slings, tensions, total_tension, k - 1), LAMBDA before :
         Bind(RDiv(tensions[k].tension_kg, total_tension), LAMBDA weight :
             <<RAdd(before[1], RMul(RInt(slings[k].attachment_point[1]), weight)),
               RAdd(before[2], RMul(RInt(slings[k].attachment_point[2]), weight)),
               RAdd(before[3], RMul(RInt(slings[k].attachment_point[3]), weight))>>))

\* 0.05 m, the offset below which a load is balanced, in millimetres
BalancedMm == 50

\* RiggingCalculator::check_balance, its first component (is_balanced) and
\* whether a tilt is reported.  A NaN total passes the test on 0.001 and
\* makes the offset NaN, which is not below 0.05.  The norm is compared by
\* its square.
CheckBalance(load, slings, tensions) ==
    Bind(TotalTension(tensions, Len(tensions)), LAMBDA total_tension :
        IF total_tension = NaN THEN [is_balanced |-> FALSE, tilted |-> TRUE]
        ELSE IF RLt(total_tension, Rat(1, 1000))
        THEN [is_balanced |-> FALSE, tilted |-> FALSE]
        ELSE
        Bind(WeightedCenter(slings, tensions, total_tension, Len(tensions)),
        LAMBDA weighted_center :
        Bind(<<RSub(weighted_center[1], RInt(load.center_of_gravity[1])),
               RSub(weighted_center[2], RInt(load.center_of_gravity[2])),
               RSub(weighted_center[3], RInt(load.center_of_gravity[3]))>>,
        LAMBDA offset :
        Bind(RLt(Dot(offset, offset), RInt(BalancedMm * BalancedMm)),
        LAMBDA is_balanced :
            [is_balanced |-> is_balanced, tilted |-> ~is_balanced]))))

\* 60.0 degrees, in millidegrees
ShallowAngleMilliDeg == 60000

\* 90.0 percent
HighUtilizationPercent == 90

\* 5.0, the safety factor below which generate_warnings warns
WarnSafetyFactor == 5

\* 0.2 m, in millimetres
CogOffsetWarnMm == 200

\* the warnings generate_warnings pushes for one sling, in order; a warning
\* is the kind of its message and the sling it names
SlingWarnings(tension) ==
    (IF tension.angle_from_vertical_deg > ShallowAngleMilliDeg
     THEN <<[kind |-> "ShallowAngle", sling_id |-> tension.sling_id]>> ELSE <<>>)
    \o (IF /\ tension.utilization_percent # NaN
            /\ RLt(RInt(HighUtilizationPercent), tension.utilization_percent)
        THEN <<[kind |-> "HighlyLoaded", sling_id |-> tension.sling_id]>> ELSE <<>>)
    \o (IF ~tension.is_safe
        THEN <<[kind |-> "Overloaded", sling_id |-> tension.sling_id]>> ELSE <<>>)

\* the loop of generate_warnings over the first k slings
RECURSIVE WarningsOfSlings(_, _)
WarningsOfSlings(tensions, k) ==
    IF k = 0 THEN <<>>
    ELSE WarningsOfSlings(tensions, k - 1) \o SlingWarnings(tensions[k])

\* the square of Vector3::norm, of a vector in millimetres
NormSquared(v) == v[1] * v[1] + v[2] * v[2] + v[3] * v[3]

\* RiggingCalculator::generate_warnings; the norm is compared by its square
GenerateWarnings(tensions, safety) ==
    WarningsOfSlings(tensions, Len(tensions))
    \o (IF FLt(safety.overall_safety_factor, RInt(WarnSafetyFactor))
        THEN <<[kind |-> "SafetyFactor"]>> ELSE <<>>)
    \o (IF NormSquared(safety.cog_offset_from_hook_m) > CogOffsetWarnMm * CogOffsetWarnMm
        THEN <<[kind |-> "CogOffset"]>> ELSE <<>>)

\* analyze failing with SlingOverloaded when a sling is not safe
AnalyzeFailingWhenOverloaded(config) ==
    Bind(CalculateSlingTensions(config.load, config.slings, config.crane_hook_position),
    LAMBDA sling_tensions :
        IF sling_tensions.tag = "Err" THEN sling_tensions
        ELSE IF \E i \in 1..Len(sling_tensions.v) : ~sling_tensions.v[i].is_safe
        THEN Err([kind |-> "SlingOverloaded"])
        ELSE
        Bind(CheckBalance(config.load, config.slings, sling_tensions.v), LAMBDA balance :
        Bind(AnalyzeSafety(config.load, sling_tensions.v, config.crane_hook_position),
        LAMBDA safety_analysis :
            Ok([sling_tensions |-> sling_tensions.v,
                is_balanced |-> balance.is_balanced,
                tilted |-> balance.tilted,
                safety_analysis |-> safety_analysis,
                warnings |-> GenerateWarnings(sling_tensions.v, safety_analysis)]))))

\* RiggingCalculator::analyze.  The weight of the rigging and the tilt angles
\* are left out of the result.
Analyze(config) ==
    Bind(CalculateSlingTensions(config.load, config.slings, config.crane_hook_position),
    LAMBDA sling_tensions :
        IF sling_tensions.tag = "Err" THEN sling_tensions
        ELSE
        Bind(CheckBalance(config.load, config.slings, sling_tensions.v), LAMBDA balance :
        Bind(AnalyzeSafety(config.load, sling_tensions.v, config.crane_hook_position),
        LAMBDA safety_analysis :
            Ok([sling_tensions |-> sling_tensions.v,
                is_balanced |-> balance.is_balanced,
                tilted |-> balance.tilted,
                safety_analysis |-> safety_analysis,
                warnings |-> GenerateWarnings(sling_tensions.v, safety_analysis)]))))

-----------------------------------------------------------------------------
(* Rigging: building one RiggingConfiguration and analysing it             *)

\* most slings a configuration is given
MaxSlings == 7

Sling(id, hitch_type, rated_capacity_kg, attachment_point, hook_point) ==
    [spec |-> [id |-> id, rated_capacity_kg |-> rated_capacity_kg],
     hitch_type |-> hitch_type,
     attachment_point |-> attachment_point,
     hook_point |-> hook_point]

\* slings to a hook 4 m above the centre of gravity, with legs inclined at
\* cos = 4/5 from four sides
InclinedSlings ==
    { Sling("s2", "Choker", 50000, <<3000, 0, 0>>, <<0, 0, 4000>>),
      Sling("s3", "Basket", 5000, <<-3000, 0, 0>>, <<0, 0, 4000>>),
      Sling("s4", "Choker", 50000, <<0, 3000, 0>>, <<0, 0, 4000>>) }

\* plumb slings on four pick points around the centre of gravity
VerticalSlings ==
    { Sling("s6", "Vertical", 5000, <<3000, 0, 0>>, <<3000, 0, 4000>>),
      Sling("s7", "Vertical", 5000, <<-3000, 0, 0>>, <<-3000, 0, 4000>>),
      Sling("s8", "Vertical", 5000, <<0, 3000, 0>>, <<0, 3000, 4000>>),
      Sling("s9", "Vertical", 5000, <<0, -3000, 0>>, <<0, -3000, 4000>>) }

\* and: a vertical sling on the centre of gravity, a leg inclined at
\* cos = 3/5, and a sling of length 0
SlingPool ==
    InclinedSlings \cup VerticalSlings \cup
    { Sling("s1", "Vertical", 50000, <<0, 0, 0>>, <<0, 0, 4000>>),
      Sling("s5", "Bridle", 50000, <<4000, 0, 0>>, <<0, 0, 3000>>),
      Sling("s0", "Vertical", 50000, <<0, 0, 4000>>, <<0, 0, 4000>>) }

LoadWeights == {0, 1000, 6000}

\* the crane hook 4 m and 0.2 m above the centre of gravity
HookPositions == {<<0, 0, 4000>>, <<0, 0, 200>>}

InitRigging ==
    /\ IdleChart /\ IdleCapacity /\ IdleCrane
    /\ IdleSupport
    /\ rig = [load |-> [weight_kg |-> 1000, center_of_gravity |-> <<0, 0, 0>>],
              slings |-> <<>>,
              crane_hook_position |-> <<0, 0, 4000>>]
    /\ out = Call("new", <<>>, Unit)

\* most plumb slings a configuration is given
MaxVerticalSlings == 4

\* up to three slings of any kind, up to MaxSlings inclined ones, or up to
\* MaxVerticalSlings plumb ones
RigPushSling ==
    \E s \in SlingPool :
        /\ \/ Len(rig.slings) < 3
           \/ /\ Len(rig.slings) < MaxSlings
              /\ s \in InclinedSlings
              /\ \A i \in 1..Len(rig.slings) : rig.slings[i] \in InclinedSlings
           \/ /\ Len(rig.slings) < MaxVerticalSlings
              /\ s \in VerticalSlings
              /\ \A i \in 1..Len(rig.slings) : rig.slings[i] \in VerticalSlings
        /\ rig' = [rig EXCEPT !.slings = Append(@, s)]
        /\ out' = Call("slings.push", <<s.spec.id>>, Unit)
        /\ UNCHANGED <<lc, cc, cfg, gc, osys, cwc>>

RigSetWeight ==
    \E w \in LoadWeights :
        /\ rig' = [rig EXCEPT !.load.weight_kg = w]
        /\ out' = Call("load.weight_kg", <<w>>, Unit)
        /\ UNCHANGED <<lc, cc, cfg, gc, osys, cwc>>

RigSetHookPosition ==
    \E h \in HookPositions :
        /\ rig' = [rig EXCEPT !.crane_hook_position = h]
        /\ out' = Call("crane_hook_position", <<h>>, Unit)
        /\ UNCHANGED <<lc, cc, cfg, gc, osys, cwc>>

RigAnalyze ==
    /\ AfterMutator
    /\ out' = Call("analyze", <<>>, Analyze(rig))
    /\ UNCHANGED <<lc, cc, cfg, rig, gc, osys, cwc>>

NextRigging == RigPushSling \/ RigSetWeight \/ RigSetHookPosition \/ RigAnalyze

SpecRigging == InitRigging /\ [][NextRigging]_vars

-----------------------------------------------------------------------------
(* Properties of the rigging analysis                                      *)

\* C8: analyze dispatches on the number of slings: none fails with
\* InsufficientPickPoints, more than 6 fail with InvalidConfiguration, and 1 to
\* 6 slings of solvable geometry (no sling of length 0; two pick points not
\* both on the centre of gravity; three directions not in one plane) give Ok
\* with one analysis per sling, in input order, carrying the sling's id; with
\* a single sling the tension is the load weight.
C8_Dispatch ==
    out.op = "analyze" =>
        LET slings == rig.slings
            n == Len(slings)
            Vec(i) == Minus(slings[i].hook_point, slings[i].attachment_point)
            SqLen(v) == v[1] * v[1] + v[2] * v[2] + v[3] * v[3]
            Arm(i) == Minus(slings[i].attachment_point, rig.load.center_of_gravity)
            \* the three directions scaled down to metres
            D(i) == <<Vec(i)[1] \div 1000, Vec(i)[2] \div 1000, Vec(i)[3] \div 1000>>
            Triple == D(1)[1] * (D(2)[2] * D(3)[3] - D(2)[3] * D(3)[2])
                      - D(1)[2] * (D(2)[1] * D(3)[3] - D(2)[3] * D(3)[1])
                      + D(1)[3] * (D(2)[1] * D(3)[2] - D(2)[2] * D(3)[1])
            Solvable == /\ \A i \in 1..n : SqLen(Vec(i)) > 0
                        /\ n = 2 => SqLen(Arm(1)) + SqLen(Arm(2)) > 0
                        /\ n = 3 => Triple # 0
        IN  /\ n = 0 => out.ret = Err([kind |-> "InsufficientPickPoints"])
            /\ n > 6 => out.ret.tag = "Err" /\ out.ret.e.kind = "InvalidConfiguration"
            /\ n \in 1..6 /\ Solvable =>
                  /\ out.ret.tag = "Ok"
                  /\ Len(out.ret.v.sling_tensions) = n
                  /\ \A i \in 1..n :
                        out.ret.v.sling_tensions[i].sling_id = slings[i].spec.id
            /\ n = 1 /\ out.ret.tag = "Ok" =>
                  out.ret.v.sling_tensions[1].tension_kg = RInt(rig.load.weight_kg)

\* a single inclined sling carries the whole load weight
C8_Witness ==
    /\ out.op = "analyze"
    /\ Len(rig.slings) = 1
    /\ rig.slings[1].spec.id = "s2"
    /\ rig.load.weight_kg = 1000
    /\ out.ret.tag = "Ok"
    /\ out.ret.v.sling_tensions[1].tension_kg = RInt(1000)

\* C9: each sling is reported with the angle between its direction and the
\* vertical and with the capacity rated * cos(angle) * hitch factor (vertical
\* 1.0, choker 0.75, basket 2.0, bridle 1.0), cos(angle) being the vertical
\* component of the unit direction; a sling whose hook point is straight above
\* its attachment point is at 0 degrees with capacity rated * hitch factor;
\* utilization is tension / capacity * 100 and is_safe holds iff it is <= 100.
C9_AngleFromVertical ==
    out.op = "analyze" /\ out.ret.tag = "Ok" =>
        \A i \in 1..Len(rig.slings) :
            LET sling == rig.slings[i]
                a == out.ret.v.sling_tensions[i]
                v == Minus(sling.hook_point, sling.attachment_point)
                cos == Rat(v[3], Norm(v))
                hitch == CASE sling.hitch_type = "Vertical" -> RInt(1)
                           [] sling.hitch_type = "Choker" -> Rat(3, 4)
                           [] sling.hitch_type = "Basket" -> RInt(2)
                           [] sling.hitch_type = "Bridle" -> RInt(1)
                rated == RInt(sling.spec.rated_capacity_kg)
            IN  /\ a.angle_from_vertical_deg = AcosDeg(cos)
                /\ a.capacity_kg = RMul(RMul(rated, cos), hitch)
                /\ v[1] = 0 /\ v[2] = 0 /\ v[3] > 0 =>
                      /\ a.angle_from_vertical_deg = 0
                      /\ a.capacity_kg = RMul(rated, hitch)
                /\ a.utilization_percent =
                      RMul(RDiv(a.tension_kg, a.capacity_kg), RInt(100))
                /\ a.is_safe <=> RLe(a.utilization_percent, RInt(100))

C11_WarningsMatchThresholds ==
    out.op = "analyze" /\ out.ret.tag = "Ok" =>
        LET st == out.ret.v.sling_tensions
            sa == out.ret.v.safety_analysis
            w == out.ret.v.warnings
            Has(x) == \E k \in 1..Len(w) : w[k] = x
            Plumb(sling) ==
                LET v == Minus(sling.hook_point, sling.attachment_point)
                IN  v[1] = 0 /\ v[2] = 0 /\ v[3] > 0
            offset == sa.cog_offset_from_hook_m
        IN  /\ \A i \in 1..Len(st) :
                  /\ Has([kind |-> "ShallowAngle", sling_id |-> st[i].sling_id])
                        <=> st[i].angle_from_vertical_deg > 60000
                  /\ Has([kind |-> "HighlyLoaded", sling_id |-> st[i].sling_id])
                        <=> RLt(RInt(90), st[i].utilization_percent)
                  /\ Has([kind |-> "Overloaded", sling_id |-> st[i].sling_id])
                        <=> RLt(RInt(100), st[i].utilization_percent)
            /\ Has([kind |-> "SafetyFactor"]) <=> FLt(sa.overall_safety_factor, RInt(5))
            /\ Has([kind |-> "CogOffset"]) <=> NormSquared(offset) > 200 * 200
            /\ ( /\ \A i \in 1..Len(rig.slings) : Plumb(rig.slings[i])
                 /\ FGe(sa.overall_safety_factor, RInt(5))
                 /\ offset[1] = 0 /\ offset[2] = 0
                 /\ NormSquared(offset) <= 200 * 200 )
               => w = <<>>

\* C12: soft issues never make analyze fail.  With 1 to 6 slings of solvable
\* geometry the result is Ok, and it carries the soft issues as flags and
\* warnings: a sling over 100 % has is_safe = FALSE and an overloaded warning,
\* a safety factor below 5 has is_configuration_safe = FALSE and a warning, a
\* centre of lift 0.05 m or more from the centre of gravity has is_balanced =
\* FALSE.  An Err is never SlingOverloaded or UnbalancedLoad, and is returned
\* only without slings, with more than 6, or for unsolvable geometry.
C12_SoftIssuesNeverFail ==
    out.op = "analyze" =>
        LET slings == rig.slings
            n == Len(slings)
            Vec(i) == Minus(slings[i].hook_point, slings[i].attachment_point)
            Arm(i) == Minus(slings[i].attachment_point, rig.load.center_of_gravity)
            D(i) == <<Vec(i)[1] \div 1000, Vec(i)[2] \div 1000, Vec(i)[3] \div 1000>>
            Triple == D(1)[1] * (D(2)[2] * D(3)[3] - D(2)[3] * D(3)[2])
                      - D(1)[2] * (D(2)[1] * D(3)[3] - D(2)[3] * D(3)[1])
                      + D(1)[3] * (D(2)[1] * D(3)[2] - D(2)[2] * D(3)[1])
            Solvable == /\ \A i \in 1..n : NormSquared(Vec(i)) > 0
                        /\ n = 2 => NormSquared(Arm(1)) + NormSquared(Arm(2)) > 0
                        /\ n = 3 => Triple # 0
            r == out.ret
            st == r.v.sling_tensions
            w == r.v.warnings
            Has(x) == \E k \in 1..Len(w) : w[k] = x
            total == RSum([i \in 1..n |-> st[i].tension_kg], n)
            Centre(c) == RDiv(RSum([i \in 1..n |->
                                 RMul(st[i].tension_kg, RInt(slings[i].attachment_point[c]))], n),
                              total)
            Off(c) == RSub(Centre(c), RInt(rig.load.center_of_gravity[c]))
            offset == <<Off(1), Off(2), Off(3)>>
        IN  /\ r.tag = "Err" =>
                  /\ r.e.kind \in {"InsufficientPickPoints", "InvalidConfiguration", "MathError"}
                  /\ n = 0 \/ n > 6 \/ ~Solvable
            /\ n \in 1..6 /\ Solvable => r.tag = "Ok"
            /\ r.tag = "Ok" =>
                  /\ \A i \in 1..n :
                        RLt(RInt(100), st[i].utilization_percent) =>
                            /\ ~st[i].is_safe
                            /\ Has([kind |-> "Overloaded", sling_id |-> st[i].sling_id])
                  /\ FLt(r.v.safety_analysis.overall_safety_factor, RInt(5)) =>
                        /\ ~r.v.safety_analysis.is_configuration_safe
                        /\ Has([kind |-> "SafetyFactor"])
                  /\ r.v.is_balanced <=>
                        /\ total.n > 0
                        /\ RLt(Dot(offset, offset), RInt(50 * 50))

\* two legs on one side of a 6000 kg load: overloaded, unbalanced, not safe,
\* and still Ok
C12_Witness ==
    /\ out.op = "analyze"
    /\ out.ret.tag = "Ok"
    /\ rig.load.weight_kg = 6000
    /\ Len(rig.slings) = 2
    /\ rig.slings[1].spec.id = "s2"
    /\ rig.slings[2].spec.id = "s4"
    /\ ~out.ret.v.sling_tensions[1].is_safe
    /\ ~out.ret.v.is_balanced
    /\ ~out.ret.v.safety_analysis.is_configuration_safe
    /\ Len(out.ret.v.warnings) >= 3

\* C13: three slings whose directions (hook point minus attachment point)
\* lie in one plane or on one line make analyze fail with
\* InvalidConfiguration; it never returns Ok with tensions for them.
C13_CoplanarIsAnError ==
    out.op = "analyze" /\ Len(rig.slings) = 3 =>
        LET Vec(i) == Minus(rig.slings[i].hook_point, rig.slings[i].attachment_point)
            D(i) == <<Vec(i)[1] \div 1000, Vec(i)[2] \div 1000, Vec(i)[3] \div 1000>>
            Triple == D(1)[1] * (D(2)[2] * D(3)[3] - D(2)[3] * D(3)[2])
                      - D(1)[2] * (D(2)[1] * D(3)[3] - D(2)[3] * D(3)[1])
                      + D(1)[3] * (D(2)[1] * D(3)[2] - D(2)[2] * D(3)[1])
        IN  Triple = 0 =>
                /\ out.ret.tag = "Err"
                /\ out.ret.e.kind = "InvalidConfiguration"

\* two opposite legs and the plumb sling between them lie in one plane
C13_Witness ==
    /\ out.op = "analyze"
    /\ Len(rig.slings) = 3
    /\ rig.slings[1].spec.id = "s2"
    /\ rig.slings[2].spec.id = "s3"
    /\ rig.slings[3].spec.id = "s1"
    /\ out.ret = Err([kind |-> "InvalidConfiguration",
                      msg |-> "Slings are coplanar or collinear - cannot solve"])

\* C14: a symmetric lift of a centred load is shared evenly.  With two
\* slings the shares before the adjustment for the angle (tension times the
\* cosine of the sling's angle) add up to the load weight; two slings whose
\* pick points are equally far from the centre of gravity and whose angles are
\* equal carry equal tensions, half the weight each when they are plumb; four
\* plumb slings on pick points symmetric about the centre of gravity carry a
\* quarter of the weight each.
C14_SymmetricLiftIsEven ==
    out.op = "analyze" /\ out.ret.tag = "Ok" =>
        LET slings == rig.slings
            n == Len(slings)
            st == out.ret.v.sling_tensions
            W == RInt(rig.load.weight_kg)
            Vec(i) == Minus(slings[i].hook_point, slings[i].attachment_point)
            Cos(i) == Rat(Vec(i)[3], Norm(Vec(i)))
            Arm(i) == Minus(slings[i].attachment_point, rig.load.center_of_gravity)
            Plumb(i) == Vec(i)[1] = 0 /\ Vec(i)[2] = 0 /\ Vec(i)[3] > 0
            Centred == \A c \in 1..3 :
                          Arm(1)[c] + Arm(2)[c] + Arm(3)[c] + Arm(4)[c] = 0
        IN  /\ n = 2 =>
                  /\ RAdd(RMul(st[1].tension_kg, Cos(1)),
                          RMul(st[2].tension_kg, Cos(2))) = W
                  /\ NormSquared(Arm(1)) = NormSquared(Arm(2)) /\ Cos(1) = Cos(2) =>
                        st[1].tension_kg = st[2].tension_kg
                  /\ NormSquared(Arm(1)) = NormSquared(Arm(2)) /\ Plumb(1) /\ Plumb(2) =>
                        /\ st[1].tension_kg = RDiv(W, RInt(2))
                        /\ st[2].tension_kg = RDiv(W, RInt(2))
            /\ n = 4 /\ (\A i \in 1..4 : Plumb(i)) /\ Centred =>
                  \A i \in 1..4 : st[i].tension_kg = RDiv(W, RInt(4))

\* four plumb slings around a 1000 kg load carry 250 kg each
C14_Witness ==
    /\ out.op = "analyze"
    /\ out.ret.tag = "Ok"
    /\ rig.load.weight_kg = 1000
    /\ Len(rig.slings) = 4
    /\ {rig.slings[i].spec.id : i \in 1..4} = {"s6", "s7", "s8", "s9"}
    /\ \A i \in 1..4 : out.ret.v.sling_tensions[i].tension_kg = RInt(250)

-----------------------------------------------------------------------------
(* Ground bearing (ground_bearing.rs).  Lengths are in millimetres, loads  *)
(* in kg, areas in m2 and pressures in kPa as rationals, the safety factor *)
(* in hundredths.                                                          *)

\* std::f32::consts::PI, rounded
Pi == Rat(355, 113)

\* SupportType::contact_area_m2
ContactAreaM2(support_type) ==
    CASE support_type.tag = "OutriggerPad" ->
            RMul(Pi, Rat(support_type.pad_diameter_m * support_type.pad_diameter_m,
                         4 * 1000000))
      [] support_type.tag = "Tire" ->
            RMul(Rat(support_type.tire_width_m * support_type.tire_diameter_m, 1000000),
                 Rat(15, 100))
      [] support_type.tag = "MatWithPad" ->
            Rat(support_type.mat_length_m * support_type.mat_width_m, 1000000)
      [] support_type.tag = "Mat" ->
            Rat(support_type.mat_length_m * support_type.mat_width_m, 1000000)

\* SoilType::allowable_bearing_capacity_kpa
AllowableBearingCapacityKpa(soil_type) ==
    CASE soil_type.tag = "HardRock" -> RInt(5746)
      [] soil_type.tag = "MediumRock" -> RInt(3830)
      [] soil_type.tag = "IntermediateRock" -> RInt(1915)
      [] soil_type.tag = "SoftRock" -> RInt(766)
      [] soil_type.tag = "DenseGravel" -> RInt(600)
      [] soil_type.tag = "MediumGravel" -> RInt(400)
      [] soil_type.tag = "LooseGravel" -> RInt(200)
      [] soil_type.tag = "DenseSand" -> RInt(600)
      [] soil_type.tag = "MediumSand" -> RInt(300)
      [] soil_type.tag = "LooseSand" -> RInt(100)
      [] soil_type.tag = "HardClay" -> RInt(479)
      [] soil_type.tag = "StiffClay" -> RInt(287)
      [] soil_type.tag = "MediumClay" -> RInt(192)
      [] soil_type.tag = "SoftClay" -> RInt(100)
      [] soil_type.tag = "DenseSilt" -> RInt(287)
      [] soil_type.tag = "MediumSilt" -> RInt(150)
      [] soil_type.tag = "LooseSilt" -> RInt(75)
      [] soil_type.tag = "Peat" -> RInt(25)
      [] soil_type.tag = "Custom" -> soil_type.capacity_kpa

\* f32 `*` of a quotient FDiv made and a rational that is not zero
FScale(q, k) == IF q \in {PInf, NInf, NaN} THEN q ELSE RMul(q, k)

\* the body of the loop of GroundBearingCalculator::analyze for the point at
\* index i (from 0), whose area is positive
BearingPressureOf(support_point, i, allowable_pressure) ==
    Bind(RDiv(RMul(RInt(support_point.load_kg), Rat(981, 100000)),
              ContactAreaM2(support_point.support_type)),
    LAMBDA pressure_kpa :
        [support_index |-> i,
         pressure_kpa |-> pressure_kpa,
         allowable_kpa |-> allowable_pressure,
         is_safe |-> RLe(pressure_kpa, allowable_pressure),
         utilization_percent |->
             FScale(FDiv(pressure_kpa, allowable_pressure), RInt(100))])

\* the loop of GroundBearingCalculator::analyze over the first k points: the
\* pressures pushed, or the error it returned on the way
RECURSIVE BearingLoop(_, _, _)
BearingLoop(support_points, allowable_pressure, k) ==
    IF k = 0 THEN Ok(<<>>)
    ELSE Bind(BearingLoop(support_points, allowable_pressure, k - 1), LAMBDA before :
             IF before.tag = "Err" THEN before
             ELSE IF RLe(ContactAreaM2(support_points[k].support_type), RInt(0))
             THEN Err(<<"Support point {} has invalid contact area", k - 1>>)
             ELSE Ok(Append(before.v,
                            BearingPressureOf(support_points[k], k - 1,
                                              allowable_pressure))))

\* GroundBearingCalculator::analyze refusing a safety factor of 1.0 too
GroundAnalyzeAboveOne(config) ==
    IF config.support_points = <<>> THEN Err(<<"No support points provided">>)
    ELSE IF config.safety_factor <= 100 THEN Err(<<"Safety factor must be >= 1.0">>)
    ELSE
    Bind(RDiv(AllowableBearingCapacityKpa(config.soil_type),
              Rat(config.safety_factor, 100)),
    LAMBDA allowable_pressure :
    Bind(BearingLoop(config.support_points, allowable_pressure,
                     Len(config.support_points)),
    LAMBDA loop :
        IF loop.tag = "Err" THEN loop
        ELSE Ok([is_safe |-> \A i \in 1..Len(loop.v) : loop.v[i].is_safe,
                 soil_type |-> config.soil_type,
                 bearing_pressures |-> loop.v])))

\* GroundBearingCalculator::analyze
GroundAnalyze(config) ==
    IF config.support_points = <<>> THEN Err(<<"No support points provided">>)
    ELSE IF config.safety_factor < 100 THEN Err(<<"Safety factor must be >= 1.0">>)
    ELSE
    Bind(RDiv(AllowableBearingCapacityKpa(config.soil_type),
              Rat(config.safety_factor, 100)),
    LAMBDA allowable_pressure :
    Bind(BearingLoop(config.support_points, allowable_pressure,
                     Len(config.support_points)),
    LAMBDA loop :
        IF loop.tag = "Err" THEN loop
        ELSE Ok([is_safe |-> \A i \in 1..Len(loop.v) : loop.v[i].is_safe,
                 soil_type |-> config.soil_type,
                 bearing_pressures |-> loop.v])))

-----------------------------------------------------------------------------
(* Ground bearing: building one GroundConfiguration and analysing it       *)

\* most support points a configuration is given
MaxSupportPoints == 3

SupportPoint(load_kg, support_type) ==
    [load_kg |-> load_kg, support_type |-> support_type]

\* 10 t on a 1 m2 mat, 1 t on a 0.6 m pad, a tire of width 0, an unloaded
\* mat with a pad, and a mat of negative length
SupportPool ==
    { SupportPoint(10000, [tag |-> "Mat", mat_length_m |-> 1000, mat_width_m |-> 1000]),
      SupportPoint(1000, [tag |-> "OutriggerPad", pad_diameter_m |-> 600]),
      SupportPoint(2000, [tag |-> "Tire", tire_width_m |-> 0, tire_diameter_m |-> 1000]),
      SupportPoint(0, [tag |-> "MatWithPad", mat_length_m |-> 2000, mat_width_m |-> 2000,
                       pad_diameter_m |-> 600]),
      SupportPoint(500, [tag |-> "Mat", mat_length_m |-> -1000, mat_width_m |-> 1000]) }

\* two named soils, a custom soil of exactly 98.1 kPa, and one that bears nothing
SoilTypes ==
    { [tag |-> "LooseSand"], [tag |-> "DenseGravel"],
      [tag |-> "Custom", capacity_kpa |-> Rat(981, 10)],
      [tag |-> "Custom", capacity_kpa |-> RInt(0)] }

\* 0.99, 1.0, 1.5 and 2.0
SafetyFactors == {99, 100, 150, 200}

InitGround ==
    /\ IdleChart /\ IdleCapacity /\ IdleCrane /\ IdleRigging
    /\ IdleOutriggers /\ IdleCounterweight
    /\ gc = [support_points |-> <<>>,
             soil_type |-> [tag |-> "DenseGravel"],
             safety_factor |-> 150]
    /\ out = Call("new", <<>>, Unit)

GcPushSupportPoint ==
    \E sp \in SupportPool :
        /\ Len(gc.support_points) < MaxSupportPoints
        /\ gc' = [gc EXCEPT !.support_points = Append(@, sp)]
        /\ out' = Call("support_points.push", <<sp>>, Unit)
        /\ UNCHANGED <<lc, cc, cfg, rig, osys, cwc>>

GcSetSoilType ==
    \E soil \in SoilTypes :
        /\ gc' = [gc EXCEPT !.soil_type = soil]
        /\ out' = Call("soil_type", <<soil>>, Unit)
        /\ UNCHANGED <<lc, cc, cfg, rig, osys, cwc>>

GcSetSafetyFactor ==
    \E f \in SafetyFactors :
        /\ gc' = [gc EXCEPT !.safety_factor = f]
        /\ out' = Call("safety_factor", <<f>>, Unit)
        /\ UNCHANGED <<lc, cc, cfg, rig, osys, cwc>>

GcAnalyze ==
    /\ AfterMutator
    /\ out' = Call("bearing.analyze", <<>>, GroundAnalyze(gc))
    /\ UNCHANGED <<lc, cc, cfg, rig, gc, osys, cwc>>

NextGround == GcPushSupportPoint \/ GcSetSoilType \/ GcSetSafetyFactor \/ GcAnalyze

SpecGround == InitGround /\ [][NextGround]_vars

-----------------------------------------------------------------------------
(* Properties of the ground bearing analysis                               *)

\* C15: GroundBearingCalculator::analyze fails exactly when there is no
\* support point, or the safety factor is below 1.0, or some support point
\* has a contact area <= 0, tested in that order, the area error naming the
\* first such point; otherwise it returns one BearingPressure per support
\* point, in input order, support_index being the point's index.
C15_BearingErrors ==
    out.op = "bearing.analyze" =>
        LET pts == gc.support_points
            n == Len(pts)
            \* the sign of the contact area
            Sign(t) == CASE t.tag = "OutriggerPad" -> t.pad_diameter_m * t.pad_diameter_m
                         [] t.tag = "Tire" -> t.tire_width_m * t.tire_diameter_m
                         [] OTHER -> t.mat_length_m * t.mat_width_m
            Bad == {i \in 1..n : Sign(pts[i].support_type) <= 0}
            r == out.ret
        IN  /\ r.tag = "Err" <=> (n = 0 \/ gc.safety_factor < 100 \/ Bad # {})
            /\ n = 0 => r = Err(<<"No support points provided">>)
            /\ n > 0 /\ gc.safety_factor < 100 => r = Err(<<"Safety factor must be >= 1.0">>)
            /\ n > 0 /\ gc.safety_factor >= 100 /\ Bad # {} =>
                  \E i \in Bad :
                      /\ \A j \in Bad : i <= j
                      /\ r = Err(<<"Support point {} has invalid contact area", i - 1>>)
            /\ r.tag = "Ok" =>
                  /\ Len(r.v.bearing_pressures) = n
                  /\ \A i \in 1..n : r.v.bearing_pressures[i].support_index = i - 1

\* a sound mat followed by two points without area: the error names index 1
C15_Witness ==
    /\ out.op = "bearing.analyze"
    /\ Len(gc.support_points) = 3
    /\ gc.support_points[1].support_type.tag = "Mat"
    /\ gc.support_points[1].support_type.mat_length_m = 1000
    /\ gc.support_points[2].support_type.tag = "Tire"
    /\ gc.support_points[3].support_type.tag = "Mat"
    /\ gc.safety_factor = 100
    /\ out.ret = Err(<<"Support point {} has invalid contact area", 1>>)

\* C16: in every successful ground bearing analysis each point's pressure is
\* load_kg * 9.81 / 1000 over its contact area (10,000 kg on 1 m2: 98.1 kPa),
\* its allowable pressure is the soil capacity over the safety factor, its
\* is_safe holds iff pressure <= allowable, and the aggregate is_safe is the
\* conjunction of the points' flags; hence an aggregate is_safe has every
\* point at a utilization of at most 100 %, and one unsafe point makes the
\* aggregate unsafe.
C16_BearingPressures ==
    out.op = "bearing.analyze" /\ out.ret.tag = "Ok" =>
        LET pts == gc.support_points
            bp == out.ret.v.bearing_pressures
            allowable == RDiv(AllowableBearingCapacityKpa(gc.soil_type),
                              Rat(gc.safety_factor, 100))
            Pressure(i) == RDiv(Rat(pts[i].load_kg * 981, 100000),
                                ContactAreaM2(pts[i].support_type))
        IN  /\ \A i \in 1..Len(pts) :
                  /\ bp[i].pressure_kpa = Pressure(i)
                  /\ bp[i].allowable_kpa = allowable
                  /\ bp[i].is_safe <=> RLe(Pressure(i), allowable)
                  /\ ( /\ pts[i].load_kg = 10000
                       /\ ContactAreaM2(pts[i].support_type) = RInt(1) )
                     => bp[i].pressure_kpa = Rat(981, 10)
            /\ out.ret.v.is_safe <=> \A i \in 1..Len(pts) : bp[i].is_safe
            /\ out.ret.v.is_safe =>
                  \A i \in 1..Len(pts) : FGe(RInt(100), bp[i].utilization_percent)
            /\ (\E i \in 1..Len(pts) : ~bp[i].is_safe) => ~out.ret.v.is_safe

-----------------------------------------------------------------------------
(* Outriggers: one OutriggerSystem whose outriggers are deployed and       *)
(* retracted in any order                                                  *)

\* the states an outrigger is put into: the jacks down by 0.5 m or by nothing
OutriggerStates == {Retracted, Extended, SetDown(PresetJackMm), SetDown(0)}

InitOutriggers ==
    /\ IdleChart /\ IdleCapacity /\ IdleCrane /\ IdleRigging
    /\ IdleGround /\ IdleCounterweight
    /\ osys = OutriggerSystemNew(7100)
    /\ out = Call("new", <<>>, Unit)

OsSetDeployment ==
    \E i \in 1..4, d \in OutriggerStates :
        /\ osys' = [osys EXCEPT !.outriggers[i].deployment = d]
        /\ out' = Call("deployment", <<i, d>>, Unit)
        /\ UNCHANGED <<lc, cc, cfg, rig, gc, cwc>>

OsAllDeployed ==
    /\ out.op # "all_deployed"
    /\ out' = Call("all_deployed", <<>>, AllDeployed(osys))
    /\ UNCHANGED <<lc, cc, cfg, rig, gc, osys, cwc>>

NextOutriggers == OsSetDeployment \/ OsAllDeployed

SpecOutriggers == InitOutriggers /\ [][NextOutriggers]_vars

\* C17 as stated: all_deployed() is false in every state before all four
\* outriggers have reached Set, and true in every state thereafter.
C17_DeployedThereafter ==
    /\ [](AllDeployed(osys) => \A i \in 1..4 : osys.outriggers[i].deployment.tag = "Set")
    /\ [][AllDeployed(osys) => AllDeployed(osys)']_vars

\* C17 amended: with all_required = TRUE, all_deployed() is true exactly in
\* the states in which all four outriggers are Set at that moment, so it is
\* false before all four have reached Set and false again once one of them
\* is put back to Retracted or Extended; Extended does not count as deployed.
C17_DeployedWhileAllSet ==
    /\ osys.all_required
    /\ AllDeployed(osys) <=> \A i \in 1..4 : osys.outriggers[i].deployment.tag = "Set"
    /\ out.op = "all_deployed" =>
          (out.ret <=> \A i \in 1..4 : osys.outriggers[i].deployment \notin {Retracted, Extended})

\* three outriggers Set and one only Extended: not deployed
C17_Witness ==
    /\ out.op = "all_deployed"
    /\ \A i \in 1..3 : osys.outriggers[i].deployment.tag = "Set"
    /\ osys.outriggers[4].deployment = Extended
    /\ out.ret = FALSE

-----------------------------------------------------------------------------
(* Counterweight: one CounterweightConfig whose slab stack is changed by   *)
(* its methods and, the field being public, by hand                        *)

\* max_slabs of the configuration
MaxSlabs == 3

\* the longest stack built by hand
MaxStack == 4

\* slabs that are not standard ones: a heavy one and one out of place
OddSlabs ==
    {[id |-> <<"heavy">>, weight_kg |-> 8000, position_index |-> 0],
     [id |-> <<"slab_", 1>>, weight_kg |-> 5000, position_index |-> 7]}

InitCounterweight ==
    /\ IdleChart /\ IdleCapacity /\ IdleCrane /\ IdleRigging
    /\ IdleGround /\ IdleOutriggers
    /\ cwc = CounterweightConfigNew(5000, MaxSlabs)
    /\ out = Call("new", <<>>, Unit)

\* slabs.push on the public field
CwPushSlab ==
    \E slab \in OddSlabs :
        /\ Len(cwc.slabs) < MaxStack
        /\ cwc' = [cwc EXCEPT !.slabs = Append(@, slab)]
        /\ out' = Call("slabs.push", <<slab>>, Unit)
        /\ UNCHANGED <<lc, cc, cfg, rig, gc, osys>>

\* add_slab and remove_slab; the stack before the call is kept as argument
CwAddSlab ==
    /\ cwc' = AddSlab(cwc).self
    /\ out' = Call("add_slab", <<cwc.slabs>>, AddSlab(cwc).ret)
    /\ UNCHANGED <<lc, cc, cfg, rig, gc, osys>>

CwRemoveSlab ==
    /\ cwc' = RemoveSlab(cwc).self
    /\ out' = Call("remove_slab", <<cwc.slabs>>, RemoveSlab(cwc).ret)
    /\ UNCHANGED <<lc, cc, cfg, rig, gc, osys>>

\* set_slab_count(count); the stack before the call is kept with the arguments
CwSetSlabCount ==
    \E count \in 0..(MaxSlabs + 2) :
        /\ cwc' = SetSlabCount(cwc, count).self
        /\ out' = Call("set_slab_count", <<count, cwc.slabs>>, SetSlabCount(cwc, count).ret)
        /\ UNCHANGED <<lc, cc, cfg, rig, gc, osys>>

NextCounterweight == CwPushSlab \/ CwAddSlab \/ CwRemoveSlab \/ CwSetSlabCount

SpecCounterweight == InitCounterweight /\ [][NextCounterweight]_vars

\* C18: set_slab_count(N) from any slab stack: with N <= max_slabs it is Ok,
\* get_slab_count() is N afterwards and the stack is exactly N slabs of the
\* standard weight at position indices 0..N-1; with N > max_slabs it is an
\* error and the stack is what it was before the call.
C18_SetSlabCount ==
    out.op = "set_slab_count" =>
        IF out.args[1] <= cwc.max_slabs
        THEN /\ out.ret = Ok(Unit)
             /\ GetSlabCount(cwc) = out.args[1]
             /\ \A i \in 1..out.args[1] :
                    /\ cwc.slabs[i].weight_kg = cwc.standard_slab_weight_kg
                    /\ cwc.slabs[i].position_index = i - 1
        ELSE /\ out.ret.tag = "Err"
             /\ out.ret.e.kind = "CounterweightInvalid"
             /\ cwc.slabs = out.args[2]

\* a count above max_slabs refused on a stack built by hand, longer than
\* max_slabs and with a slab in it that is not a standard one
C18_Witness ==
    /\ out.op = "set_slab_count"
    /\ out.args[1] > cwc.max_slabs
    /\ out.ret.tag = "Err"
    /\ Len(cwc.slabs) = MaxStack
    /\ \E i \in 1..Len(cwc.slabs) : cwc.slabs[i].weight_kg # cwc.standard_slab_weight_kg

-----------------------------------------------------------------------------
(* Inverse kinematics: calculate_boom_angle_for_height on boom lengths,    *)
(* targets, pivot heights and hoist lengths in whole metres                *)

BoomLengthsM == {25, 30}

TargetRadiiM == {0, 15, 20, 24, 50}

TargetHeightsM == {0, 10, 18, 24, 50}

PivotHeightsM == {0, 3}

HoistLengthsM == {0, 10}

InitKinematics ==
    /\ IdleChart /\ IdleCapacity /\ IdleCrane /\ IdleRigging /\ IdleSupport
    /\ out = Call("new", <<>>, Unit)

KinBoomAngleForHeight ==
    \E boom_length_m \in BoomLengthsM, target_radius_m \in TargetRadiiM,
       target_hook_height_m \in TargetHeightsM,
       boom_pivot_height_m \in PivotHeightsM, hoist_length_m \in HoistLengthsM :
        /\ out' = Call("calculate_boom_angle_for_height",
                       <<boom_length_m, target_radius_m, target_hook_height_m,
                         boom_pivot_height_m, hoist_length_m>>,
                       CalculateBoomAngleForHeight(boom_length_m, target_radius_m,
                           target_hook_height_m, boom_pivot_height_m, hoist_length_m))
        /\ UNCHANGED <<lc, cc, cfg, rig, gc, osys, cwc>>

NextKinematics == KinBoomAngleForHeight

SpecKinematics == InitKinematics /\ [][NextKinematics]_vars

\* C19: for every boom length, pivot height, hoist length and target with
\* sqrt(radius^2 + (height - pivot)^2) <= boom_length the function returns
\* Some(angle), and for a target beyond that reach it returns None;
\* (30, 50, 50, 3, 10) is None.
C19_SomeWithinReach ==
    out.op = "calculate_boom_angle_for_height" =>
        /\ (out.args[2] * out.args[2]
              + (out.args[3] - out.args[4]) * (out.args[3] - out.args[4])
                <= out.args[1] * out.args[1])
           <=> (out.ret.tag = "Some")
        /\ out.args = <<30, 50, 50, 3, 10>> => out.ret = None

\* C20: whenever the function returns Some(a), the hook of a boom of that
\* length at angle a is at the target radius and the target height (to a
\* centimetre), and (30, 15, 24, 3, 10) gives Some(a) with a within
\* 1 degree of 60.
C20_ForwardKinematics ==
    out.op = "calculate_boom_angle_for_height" =>
        /\ out.ret.tag = "Some" =>
              LET hook == CalculateHookPosition(<<0, 0, 0>>, out.args[1], out.ret.v, 0,
                                                out.args[4], out.args[5])
              IN  /\ RLe(RAbs(RSub(hook[2], RInt(out.args[2]))), Rat(1, 100))
                  /\ RLe(RAbs(RSub(hook[3], RInt(out.args[3]))), Rat(1, 100))
        /\ out.args = <<30, 15, 24, 3, 10>> =>
              /\ out.ret.tag = "Some"
              /\ Abs(out.ret.v - 60000) < 1000

-----------------------------------------------------------------------------
(* Clearance: kinematics::check_clearance on hook paths, boxes and margins *)
(* in whole millimetres                                                    *)

\* Vector3 / 2.0 + Vector3::repeat(clearance_margin_m), one component
HalfExtent(dimension, clearance_margin_m) ==
    RAdd(RDiv(RInt(dimension), RInt(2)), RInt(clearance_margin_m))

\* the test of the loop with the load's box centred on the hook
BoxesOverlapAtHook(hook_pos, load_dimensions, obstacle_position, obstacle_dimensions, clearance_margin_m) ==
    \A axis \in 1..3 :
        RLt(RAbs(RInt(hook_pos[axis] - obstacle_position[axis])),
            RAdd(HalfExtent(load_dimensions[axis], clearance_margin_m),
                 HalfExtent(obstacle_dimensions[axis], clearance_margin_m)))

\* check_clearance, the test of the loop on one hook position
BoxesOverlap(hook_pos, load_dimensions, obstacle_position, obstacle_dimensions, clearance_margin_m) ==
    LET load_center == <<RInt(hook_pos[1]), RInt(hook_pos[2]),
                         RSub(RInt(hook_pos[3]), RDiv(RInt(load_dimensions[3]), RInt(2)))>>
    IN  \A axis \in 1..3 :
            RLt(RAbs(RSub(load_center[axis], RInt(obstacle_position[axis]))),
                RAdd(HalfExtent(load_dimensions[axis], clearance_margin_m),
                     HalfExtent(obstacle_dimensions[axis], clearance_margin_m)))

\* check_clearance from the k-th hook position on: false at the first overlap
RECURSIVE ClearanceLoop(_, _, _, _, _, _)
ClearanceLoop(hook_path, k, load_dimensions, obstacle_position, obstacle_dimensions, clearance_margin_m) ==
    IF k > Len(hook_path) THEN TRUE
    ELSE IF BoxesOverlap(hook_path[k], load_dimensions, obstacle_position,
                         obstacle_dimensions, clearance_margin_m)
         THEN FALSE
         ELSE ClearanceLoop(hook_path, k + 1, load_dimensions, obstacle_position,
                            obstacle_dimensions, clearance_margin_m)

\* kinematics::check_clearance
CheckClearance(hook_path, load_dimensions, obstacle_position, obstacle_dimensions, clearance_margin_m) ==
    ClearanceLoop(hook_path, 1, load_dimensions, obstacle_position,
                  obstacle_dimensions, clearance_margin_m)

\* the longest hook path
MaxPathLen == 2

\* hook positions, obstacles and margins: the ones of the tests, an obstacle
\* under the hook that only the hanging load reaches, and one exactly the
\* sum of the half-extents away from the first hook position
ClearanceInputs ==
    [hook |-> {<<0, 0, 10000>>, <<1000, 0, 10000>>, <<2000, 0, 10000>>, <<8000, 10000, 6000>>},
     obstacle |-> {<<10000, 10000, 5000>>, <<1000, 0, 8000>>, <<1000, 0, 6000>>,
                   <<3500, 0, 9000>>},
     margin |-> {0, 500}]

InitClearance ==
    /\ IdleChart /\ IdleCapacity /\ IdleCrane /\ IdleRigging /\ IdleSupport
    /\ out = Call("new", <<>>, Unit)

\* the path grows by one hook position
ClPushHook ==
    \E hook_pos \in ClearanceInputs.hook :
        /\ out.op \in {"new", "path.push"}
        /\ Len(out.args) < MaxPathLen
        /\ out' = Call("path.push", Append(out.args, hook_pos), Unit)
        /\ UNCHANGED <<lc, cc, cfg, rig, gc, osys, cwc>>

\* check_clearance of the path built so far, loads and obstacles as in the tests
ClCheckClearance ==
    \E obstacle_position \in ClearanceInputs.obstacle,
       clearance_margin_m \in ClearanceInputs.margin :
        /\ out.op \in {"new", "path.push"}
        /\ out' = Call("check_clearance",
                       <<out.args, <<2000, 2000, 2000>>, obstacle_position,
                         <<3000, 3000, 3000>>, clearance_margin_m>>,
                       [bool |-> CheckClearance(out.args, <<2000, 2000, 2000>>,
                                     obstacle_position, <<3000, 3000, 3000>>,
                                     clearance_margin_m)])
        /\ UNCHANGED <<lc, cc, cfg, rig, gc, osys, cwc>>

NextClearance == ClPushHook \/ ClCheckClearance

SpecClearance == InitClearance /\ [][NextClearance]_vars

-----------------------------------------------------------------------------
(* Chart parsers (capacity.rs, LoadChartParser).  A text is the sequence   *)
(* of its lines and a line the sequence of its trimmed fields, as          *)
(* str::lines, split and trim yield them; a blank line is <<"">>.          *)

\* str::parse::<f32> on the fields the model meets: the value, or None
ParseF32(field) ==
    CASE field = "30.0" -> Some(RInt(30))
      [] field = "30.04" -> Some(Rat(3004, 100))
      [] field = "40.0" -> Some(RInt(40))
      [] field = "3.0" -> Some(RInt(3))
      [] field = "5.0" -> Some(RInt(5))
      [] field = "10.0" -> Some(RInt(10))
      [] field = "100000" -> Some(RInt(100000))
      [] field = "90000" -> Some(RInt(90000))
      [] field = "80000" -> Some(RInt(80000))
      [] field = "40000" -> Some(RInt(40000))
      [] OTHER -> None

\* a length in metres as the whole millimetres the model keeps
Millimetres(q) == (q.n * 1000) \div q.d

\* a whole weight as the integer the model keeps
Kilograms(q) == q.n \div q.d

\* line.trim().is_empty()
IsBlank(line) == line = <<"">>

\* the slot a new key takes in a HashMap whose iteration order is ascending
\* (hash = 1) or descending (hash = -1) in the key
SlotOf(charts, key, hash) ==
    1 + Cardinality({i \in 1..Len(charts) : hash * charts[i].key < hash * key})

\* HashMap::into_values().collect()
IntoValues(charts) == [i \in 1..Len(charts) |-> charts[i].chart]

\* charts_map.entry(key).or_insert_with(|| LoadChart::new(boom_length)),
\* then chart.add_point(radius, capacity)
EntryAddPoint(charts, boom_length, radius, capacity, hash) ==
    IF MapIndex(charts, FormatKey(boom_length)) # 0
    THEN [charts EXCEPT ![MapIndex(charts, FormatKey(boom_length))].chart =
              AddPoint(@, radius, capacity)]
    ELSE MapInsert(charts, FormatKey(boom_length),
                   AddPoint(LoadChartNew(boom_length), radius, capacity),
                   SlotOf(charts, FormatKey(boom_length), hash))

\* the loop of parse_csv from line_num (0-based) on
RECURSIVE ParseCsvLoop(_, _, _, _)
ParseCsvLoop(lines, line_num, charts_map, hash) ==
    IF line_num >= Len(lines) THEN Ok(IntoValues(charts_map))
    ELSE IF line_num = 0 \/ IsBlank(lines[line_num + 1])
    THEN ParseCsvLoop(lines, line_num + 1, charts_map, hash)
    ELSE IF Len(lines[line_num + 1]) < 3
    THEN Err(<<"Line {}: Expected 3 columns, got {}", line_num + 1,
               Len(lines[line_num + 1])>>)
    ELSE IF ParseF32(lines[line_num + 1][1]) = None
    THEN Err(<<"Line {}: Invalid boom length '{}'", line_num + 1,
               lines[line_num + 1][1]>>)
    ELSE IF ParseF32(lines[line_num + 1][2]) = None
    THEN Err(<<"Line {}: Invalid radius '{}'", line_num + 1, lines[line_num + 1][2]>>)
    ELSE IF ParseF32(lines[line_num + 1][3]) = None
    THEN Err(<<"Line {}: Invalid capacity '{}'", line_num + 1, lines[line_num + 1][3]>>)
    ELSE ParseCsvLoop(lines, line_num + 1,
            EntryAddPoint(charts_map,
                          Millimetres(ParseF32(lines[line_num + 1][1]).v),
                          Millimetres(ParseF32(lines[line_num + 1][2]).v),
                          Kilograms(ParseF32(lines[line_num + 1][3]).v), hash),
            hash)

\* LoadChartParser::parse_csv
ParseCsv(csv_data, hash) == ParseCsvLoop(csv_data, 0, <<>>, hash)

\* Option::take of current_chart at a header or at the end: the chart is
\* pushed when it has points
PushCurrent(charts, current_chart) ==
    IF current_chart # None /\ current_chart.v.points # <<>>
    THEN Append(charts, current_chart.v)
    ELSE charts

\* the loop of parse_table from the k-th line on.  A line is a record: "boom"
\* for `BOOM LENGTH: <text>m`, "header" for a line containing RADIUS, "blank",
\* or "row" with the fields split_whitespace gives
RECURSIVE ParseTableLoop(_, _, _, _)
ParseTableLoop(lines, k, charts, current_chart) ==
    IF k > Len(lines) THEN Ok(PushCurrent(charts, current_chart))
    ELSE IF lines[k].kind = "boom"
    THEN IF ParseF32(lines[k].text) = None
         THEN Err(<<"Invalid boom length: {}", lines[k].text>>)
         ELSE ParseTableLoop(lines, k + 1, PushCurrent(charts, current_chart),
                  Some(LoadChartNew(Millimetres(ParseF32(lines[k].text).v))))
    ELSE IF lines[k].kind \in {"header", "blank"}
    THEN ParseTableLoop(lines, k + 1, charts, current_chart)
    ELSE IF /\ current_chart # None
            /\ Len(lines[k].parts) >= 2
            /\ ParseF32(lines[k].parts[1]) # None
            /\ ParseF32(lines[k].parts[2]) # None
    THEN ParseTableLoop(lines, k + 1, charts,
             Some(AddPoint(current_chart.v,
                           Millimetres(ParseF32(lines[k].parts[1]).v),
                           Kilograms(ParseF32(lines[k].parts[2]).v))))
    ELSE ParseTableLoop(lines, k + 1, charts, current_chart)

\* LoadChartParser::parse_table
ParseTable(table_data) == ParseTableLoop(table_data, 1, <<>>, None)

\* LoadChartParser::parse_json.  A document is what serde reads from it: the
\* charts with their points in the order of the text, or nothing when the
\* text is no JSON of that shape
ParseJson(json_data) ==
    IF json_data.tag = "Malformed" THEN Err(<<"JSON parse error: {}">>)
    ELSE Ok(json_data.charts)

\* the most lines after the first one
MaxCsvLines == 3

\* the first line of a text: the header, or a row in its place
CsvHeaders == {<<"boom_length", "radius", "capacity">>, <<"40.0", "3.0", "90000">>}

\* the other lines: rows of two boom lengths, a row whose boom length rounds
\* to the key of another, a blank line, rows of two and of four columns and
\* a row whose radius is no number
CsvLines ==
    {<<"30.0", "3.0", "100000">>, <<"30.0", "5.0", "80000">>,
     <<"40.0", "3.0", "90000">>, <<"30.04", "10.0", "40000">>,
     <<"">>, <<"30.0", "3.0">>, <<"30.0", "10.0", "40000", "note">>,
     <<"30.0", "abc", "100000">>}

\* sequences of at most n elements of S
RECURSIVE SeqsUpTo(_, _)
SeqsUpTo(S, n) ==
    IF n = 0 THEN {<<>>}
    ELSE SeqsUpTo(S, n - 1)
         \cup {Append(q, x) : q \in {r \in SeqsUpTo(S, n - 1) : Len(r) = n - 1}, x \in S}

CsvTexts == {<<>>} \cup {<<h>> \o q : h \in CsvHeaders, q \in SeqsUpTo(CsvLines, MaxCsvLines)}

\* the most lines of a table
MaxTableLines == 4

TableLines ==
    {[kind |-> "boom", text |-> "30.0"], [kind |-> "boom", text |-> "40.0"],
     [kind |-> "boom", text |-> "abc"], [kind |-> "header"],
     [kind |-> "row", parts |-> <<"3.0", "100000">>],
     [kind |-> "row", parts |-> <<"5.0", "80000">>],
     [kind |-> "row", parts |-> <<"abc", "80000">>]}

TableTexts == SeqsUpTo(TableLines, MaxTableLines)

\* the most charts of a JSON document
MaxJsonCharts == 2

\* charts of a document: points in ascending and in descending order of
\* radius, another boom length, and a boom length that rounds to 30.0
JsonCharts ==
    {[boom_length_m |-> 30000,
      points |-> <<[radius_m |-> 3000, capacity_kg |-> 100000],
                   [radius_m |-> 5000, capacity_kg |-> 80000]>>],
     [boom_length_m |-> 30000,
      points |-> <<[radius_m |-> 10000, capacity_kg |-> 40000],
                   [radius_m |-> 5000, capacity_kg |-> 80000]>>],
     [boom_length_m |-> 40000,
      points |-> <<[radius_m |-> 3000, capacity_kg |-> 90000]>>],
     [boom_length_m |-> 30040,
      points |-> <<[radius_m |-> 10000, capacity_kg |-> 40000]>>]}

JsonTexts ==
    {[tag |-> "Malformed"]}
    \cup {[tag |-> "Document", charts |-> q] : q \in SeqsUpTo(JsonCharts, MaxJsonCharts)}

\* the most points put on the chart with add_point
MaxAddedPoints == 3

InitParsers ==
    /\ IdleChart /\ IdleCapacity /\ IdleCrane /\ IdleRigging /\ IdleSupport
    /\ out = Call("new", <<>>, Unit)

PaParseCsv ==
    \E csv_data \in CsvTexts, hash \in {1, -1} :
        /\ out.op = "new"
        /\ out' = Call("parse_csv", <<csv_data>>, ParseCsv(csv_data, hash))
        /\ UNCHANGED <<lc, cc, cfg, rig, gc, osys, cwc>>

PaParseTable ==
    \E table_data \in TableTexts :
        /\ out.op = "new"
        /\ out' = Call("parse_table", <<table_data>>, ParseTable(table_data))
        /\ UNCHANGED <<lc, cc, cfg, rig, gc, osys, cwc>>

PaParseJson ==
    \E json_data \in JsonTexts :
        /\ out.op = "new"
        /\ out' = Call("parse_json", <<json_data>>, ParseJson(json_data))
        /\ UNCHANGED <<lc, cc, cfg, rig, gc, osys, cwc>>

\* LoadChart::add_point on a chart of its own
PaAddPoint ==
    \E radius_m \in {3000, 5000, 10000}, capacity_kg \in {40000, 100000} :
        /\ out.op \in {"new", "add_point"}
        /\ Len(lc.points) < MaxAddedPoints
        /\ lc' = AddPoint(lc, radius_m, capacity_kg)
        /\ out' = Call("add_point", <<radius_m, capacity_kg>>, Unit)
        /\ UNCHANGED <<cc, cfg, rig, gc, osys, cwc>>

NextParsers == PaParseCsv \/ PaParseTable \/ PaParseJson \/ PaAddPoint

SpecParsers == InitParsers /\ [][NextParsers]_vars

\* C22: parse_csv skips the first line and blank lines; when some other line
\* has not exactly 3 columns or has a column that is no number, it fails with
\* a message carrying the 1-based number of the first such line; it is Ok
\* only when every other line is a row of three numbers.
C22_CsvErrors ==
    out.op = "parse_csv" =>
        LET lines == out.args[1]
            Numeric(field) ==
                field \in {"30.0", "30.04", "40.0", "3.0", "5.0", "10.0",
                           "100000", "90000", "80000", "40000"}
            Malformed(n) ==
                /\ lines[n] # <<"">>
                /\ \/ Len(lines[n]) # 3
                   \/ \E c \in 1..Len(lines[n]) : ~Numeric(lines[n][c])
            bad == {n \in 2..Len(lines) : Malformed(n)}
        IN  IF bad = {} THEN out.ret.tag = "Ok"
            ELSE /\ out.ret.tag = "Err"
                 /\ out.ret.e[2] = CHOOSE n \in bad : \A m \in bad : n <= m

\* the charts of a parser's output loaded one after the other with add_chart
RECURSIVE LoadCharts(_, _)
LoadCharts(charts, k) ==
    IF k = 0 THEN CapacityChartNew
    ELSE AddChart(LoadCharts(charts, k - 1), charts[k], 1)

\* the number of points of the first k charts of a sequence of map entries
RECURSIVE PointsLoaded(_, _)
PointsLoaded(entries, k) ==
    IF k = 0 THEN 0 ELSE PointsLoaded(entries, k - 1) + Len(entries[k].chart.points)

\* the number of points of the first k charts of a parser's output
RECURSIVE PointsParsed(_, _)
PointsParsed(charts, k) ==
    IF k = 0 THEN 0 ELSE PointsParsed(charts, k - 1) + Len(charts[k].points)

\* C23: the output of parse_csv, parse_json and parse_table holds at most one
\* LoadChart per key (boom length rounded to 0.1 m), so that loading it with
\* add_chart keeps every point of it; and for parse_csv every row of the text
\* is a point of the chart of its key.
C23_OneChartPerKey ==
    (out.op \in {"parse_csv", "parse_json", "parse_table"} /\ out.ret.tag = "Ok") =>
        LET charts == out.ret.v
        IN  /\ \A i, j \in 1..Len(charts) :
                   i # j => FormatKey(charts[i].boom_length_m)
                            # FormatKey(charts[j].boom_length_m)
            /\ PointsLoaded(LoadCharts(charts, Len(charts)).charts,
                            Len(LoadCharts(charts, Len(charts)).charts))
               = PointsParsed(charts, Len(charts))
            /\ out.op = "parse_csv" =>
                   PointsParsed(charts, Len(charts))
                   = Cardinality({n \in 2..Len(out.args[1]) : out.args[1][n] # <<"">>})

\* C24: the points of every LoadChart are in ascending order of radius, be it
\* built by add_point calls or returned by parse_csv, parse_json or
\* parse_table.
C24_PointsSorted ==
    /\ \A i \in 1..(Len(lc.points) - 1) : lc.points[i].radius_m <= lc.points[i + 1].radius_m
    /\ (out.op \in {"parse_csv", "parse_json", "parse_table"} /\ out.ret.tag = "Ok") =>
          \A c \in 1..Len(out.ret.v) :
              \A i \in 1..(Len(out.ret.v[c].points) - 1) :
                  out.ret.v[c].points[i].radius_m <= out.ret.v[c].points[i + 1].radius_m

-----------------------------------------------------------------------------
(* The capacity of a configuration under every state of its outriggers:    *)
(* presets, one outrigger deployed and retracted by hand, three extended   *)
(* by hand                                                                 *)

InitOutriggerCapacity ==
    /\ IdleChart /\ IdleCapacity /\ IdleRigging /\ IdleSupport
    /\ cfg = CraneConfigurationNew(LiebherrLtm1100(2, 3))
    /\ out = Call("new", <<>>, Unit)

NextOutriggerCapacity ==
    \/ CfgSetSwingAngle
    \/ CfgSetDeployment({4})
    \/ CfgSetExtension
    \/ CfgPresetMaxExtension
    \/ CfgPresetMediumExtension
    \/ CfgPresetMinExtension
    \/ CfgPresetOnTires
    \/ CfgGetCurrentCapacity

SpecOutriggerCapacity == InitOutriggerCapacity /\ [][NextOutriggerCapacity]_vars

\* C25: get_current_capacity is the chart capacity times the swing factor,
\* times the intermediate factor and the on-tires factor when not all
\* outriggers are deployed (Set); when all are, the on-tires factor is left
\* out and the intermediate factor applies iff the mean of
\* extension_m / max_extension_m over the four outriggers is below 1.0.
C25_CurrentCapacity ==
    out.op = "get_current_capacity" =>
        LET os == cfg.outriggers.outriggers
            chart == cfg.spec.capacity_chart
            swung == GetCapacity(chart, cfg.boom_length_m, 15000, cfg.swing_angle_deg,
                                 RInt(1), FALSE)
            deployed == \A i \in 1..4 : os[i].deployment.tag = "Set"
            ratio(i) == Rat(os[i].extension_m, os[i].max_extension_m)
            mean == RDiv(RAdd(RAdd(ratio(1), ratio(2)), RAdd(ratio(3), ratio(4))), RInt(4))
            intermediate == Rat(chart.outrigger_intermediate_factor, 100)
            tires == Rat(chart.on_tires_factor, 100)
        IN  /\ swung # None
            /\ out.ret =
                  IF ~deployed THEN Some(RMul(RMul(swung.v, intermediate), tires))
                  ELSE IF RLt(mean, RInt(1)) THEN Some(RMul(swung.v, intermediate))
                  ELSE swung

\* one outrigger Extended and not Set, the others Set at full extension, over
\* the front: 25000 kg * 0.85 * 0.4
C25_Witness ==
    /\ out.op = "get_current_capacity"
    /\ cfg.swing_angle_deg = 0
    /\ \A i \in 1..3 : /\ cfg.outriggers.outriggers[i].deployment.tag = "Set"
                        /\ cfg.outriggers.outriggers[i].extension_m = 7100
    /\ cfg.outriggers.outriggers[4].deployment = Extended
    /\ out.ret = Some(RInt(8500))

\* C26: after preset_max_extension, preset_medium_extension and
\* preset_min_extension every outrigger is Set at max_extension_m, at
\* 0.75 * max_extension_m and at min_extension_m; after preset_on_tires every
\* outrigger is Retracted and its extension is set too, to 0 %, whatever it
\* was before the call.
C26_PresetsSetBoth ==
    \A i \in 1..4 :
        LET o == cfg.outriggers.outriggers[i]
        IN  /\ out.op = "preset_max_extension" =>
                  o.deployment.tag = "Set" /\ o.extension_m = o.max_extension_m
            /\ out.op = "preset_medium_extension" =>
                  o.deployment.tag = "Set" /\ 4 * o.extension_m = 3 * o.max_extension_m
            /\ out.op = "preset_min_extension" =>
                  o.deployment.tag = "Set" /\ o.extension_m = o.min_extension_m
            /\ out.op = "preset_on_tires" =>
                  o.deployment = Retracted /\ o.extension_m = 0

-----------------------------------------------------------------------------
(* Counterweight, through its methods only: configurations of every        *)
(* max_slabs up to MaxSlabs, 0 included, and of two slab weights           *)

SlabWeights == {5000, 12500}

InitSlabMethods ==
    /\ IdleChart /\ IdleCapacity /\ IdleCrane /\ IdleRigging
    /\ IdleGround /\ IdleOutriggers
    /\ \E standard_slab_weight_kg \in SlabWeights, max_slabs \in 0..MaxSlabs :
           cwc = CounterweightConfigNew(standard_slab_weight_kg, max_slabs)
    /\ out = Call("new", <<>>, Unit)

CwPresetMax ==
    /\ cwc' = CounterweightPresetMax(cwc).self
    /\ out' = Call("preset_max", <<cwc.slabs>>, CounterweightPresetMax(cwc).ret)
    /\ UNCHANGED <<lc, cc, cfg, rig, gc, osys>>

CwPresetMedium ==
    /\ cwc' = CounterweightPresetMedium(cwc).self
    /\ out' = Call("preset_medium", <<cwc.slabs>>, CounterweightPresetMedium(cwc).ret)
    /\ UNCHANGED <<lc, cc, cfg, rig, gc, osys>>

CwPresetMin ==
    /\ cwc' = CounterweightPresetMin(cwc).self
    /\ out' = Call("preset_min", <<cwc.slabs>>, CounterweightPresetMin(cwc).ret)
    /\ UNCHANGED <<lc, cc, cfg, rig, gc, osys>>

CwValidate ==
    /\ out.op # "validate"
    /\ out' = Call("validate", <<>>, CounterweightValidate(cwc))
    /\ UNCHANGED <<lc, cc, cfg, rig, gc, osys, cwc>>

NextSlabMethods ==
    \/ CwValidate
    \/ CwAddSlab
    \/ CwRemoveSlab
    \/ CwSetSlabCount
    \/ CwPresetMax
    \/ CwPresetMedium
    \/ CwPresetMin

SpecSlabMethods == InitSlabMethods /\ [][NextSlabMethods]_vars

\* C27: in every state reached from new by add_slab, remove_slab,
\* set_slab_count and the three presets the slab count is within
\* 0..max_slabs and the slabs are at position indices 0..count-1 in order;
\* add_slab on a full stack is an error and remove_slab on an empty stack is
\* None, and both leave the stack as it was.
C27_SlabCeiling ==
    /\ Len(cwc.slabs) <= cwc.max_slabs
    /\ \A i \in 1..Len(cwc.slabs) : cwc.slabs[i].position_index = i - 1
    /\ (out.op = "add_slab" /\ Len(out.args[1]) = cwc.max_slabs) =>
           out.ret.tag = "Err" /\ cwc.slabs = out.args[1]
    /\ (out.op = "remove_slab" /\ out.args[1] = <<>>) =>
           out.ret = None /\ cwc.slabs = <<>>

\* add_slab refused on a stack of max_slabs = MaxSlabs slabs
C27_Witness ==
    /\ out.op = "add_slab"
    /\ cwc.max_slabs = MaxSlabs
    /\ Len(cwc.slabs) = MaxSlabs
    /\ out.args[1] = cwc.slabs
    /\ out.ret.tag = "Err"

\* C28: add_slab, remove_slab and set_slab_count reject a change for the slab
\* ceiling only, never for the weight envelope, so a stack lighter than one
\* slab is reachable; validate is CounterweightInvalid exactly when the total
\* weight is below min or above max, which with standard slabs is to say that
\* it is Ok iff 1 <= slab count <= max_slabs.
C28_EnvelopeAtValidate ==
    LET count == Len(cwc.slabs)
        total == count * cwc.standard_slab_weight_kg
    IN  /\ out.op = "add_slab" =>
              (out.ret.tag = "Err" <=> Len(out.args[1]) >= cwc.max_slabs)
        /\ out.op = "remove_slab" => count = Max2(Len(out.args[1]) - 1, 0)
        /\ out.op = "set_slab_count" =>
              (out.ret.tag = "Err" <=> out.args[1] > cwc.max_slabs)
        /\ out.op = "validate" =>
              /\ (out.ret.tag = "Err" /\ out.ret.e.kind = "CounterweightInvalid")
                   <=> (total < cwc.min_counterweight_kg \/ total > cwc.max_counterweight_kg)
              /\ out.ret = Ok(Unit) <=> (1 <= count /\ count <= cwc.max_slabs)

\* a stack emptied by set_slab_count(0) and then refused by validate
C28_Witness ==
    /\ out.op = "validate"
    /\ cwc.max_slabs = MaxSlabs
    /\ cwc.slabs = <<>>
    /\ out.ret.tag = "Err"
    /\ out.ret.e.kind = "CounterweightInvalid"
    /\ out.ret.e.weight_kg = 0

-----------------------------------------------------------------------------
(* Swing paths: kinematics::calculate_swing_path, lengths in whole metres, *)
(* swing angles in whole degrees                                           *)

\* the body of the loop of calculate_swing_path for step i: with
\* t = i / (num_steps - 1) not a number the swing angle is none either, and so
\* are the sine and cosine that give x and y; z does not depend on the swing
SwingPathStep(crane_base, boom_length_m, boom_angle_deg, swing_deg_range, boom_pivot_height_m, hoist_length_m, num_steps, i) ==
    Bind(FDiv(RInt(i), RInt(num_steps - 1)),
    LAMBDA t :
        IF t = NaN
        THEN <<NaN, NaN,
               CalculateHookPosition(crane_base, boom_length_m, boom_angle_deg, 0,
                                     boom_pivot_height_m, hoist_length_m)[3]>>
        ELSE Bind(RAdd(RInt(swing_deg_range[1]),
                       RMul(t, RInt(swing_deg_range[2] - swing_deg_range[1]))),
             LAMBDA swing_angle :
                 CalculateHookPosition(crane_base, boom_length_m, boom_angle_deg,
                                       swing_angle.n \div swing_angle.d,
                                       boom_pivot_height_m, hoist_length_m)))

\* kinematics::calculate_swing_path: the loop runs over 0..num_steps - 1
CalculateSwingPath(crane_base, boom_length_m, boom_angle_deg, swing_deg_range, boom_pivot_height_m, hoist_length_m, num_steps) ==
    [k \in 1..num_steps |->
        SwingPathStep(crane_base, boom_length_m, boom_angle_deg, swing_deg_range,
                      boom_pivot_height_m, hoist_length_m, num_steps, k - 1)] \o <<>>

\* the most steps of a path
MaxSteps == 3

SwingRanges == {<<0, 90>>, <<0, 180>>, <<90, 90>>, <<180, 0>>}

InitSwingPath ==
    /\ IdleChart /\ IdleCapacity /\ IdleCrane /\ IdleRigging /\ IdleSupport
    /\ out = Call("new", <<>>, Unit)

SwCalculateSwingPath ==
    \E boom_length_m \in BoomLengthsM, boom_angle_deg \in {0, 60000},
       swing_deg_range \in SwingRanges, boom_pivot_height_m \in PivotHeightsM,
       hoist_length_m \in HoistLengthsM, num_steps \in 0..MaxSteps :
        /\ out.op = "new"
        /\ out' = Call("calculate_swing_path",
                       <<<<0, 0, 0>>, boom_length_m, boom_angle_deg, swing_deg_range,
                         boom_pivot_height_m, hoist_length_m, num_steps>>,
                       CalculateSwingPath(<<0, 0, 0>>, boom_length_m, boom_angle_deg,
                           swing_deg_range, boom_pivot_height_m, hoist_length_m,
                           num_steps))
        /\ UNCHANGED <<lc, cc, cfg, rig, gc, osys, cwc>>

NextSwingPath == SwCalculateSwingPath

SpecSwingPath == InitSwingPath /\ [][NextSwingPath]_vars

\* C29: for every num_steps >= 0 calculate_swing_path returns num_steps hook
\* positions none of whose coordinates is NaN; the i-th of them (from 0) is the
\* hook at swing angle start + i * (end - start) / (num_steps - 1), so the
\* first is at the start angle and, from two steps on, the last at the end
\* angle; one step gives the one position at the start angle, no step the
\* empty path.
C29_SwingPathGuarded ==
    out.op = "calculate_swing_path" =>
        LET a == out.args
            n == a[7]
            Angle(i) == IF n = 1 THEN a[4][1]
                        ELSE a[4][1] + (i * (a[4][2] - a[4][1])) \div (n - 1)
        IN  /\ Len(out.ret) = n
            /\ \A k \in 1..n :
                   /\ NaN \notin {out.ret[k][1], out.ret[k][2], out.ret[k][3]}
                   /\ out.ret[k] = CalculateHookPosition(a[1], a[2], a[3], Angle(k - 1),
                                                         a[5], a[6])

-----------------------------------------------------------------------------
(* The sign of the tensions of the three-sling and the multi-sling solvers  *)

\* the message of the test on negative tensions in solve_three_sling_system
NegativeTensionMessage ==
    "Configuration produces negative tension - check pick point locations"

\* the force (kg) along each axis of the slings pulling with the forces t
Resultant(slings, t) ==
    LET n == Len(slings)
        unit == Collect([i \in 1..n |-> Normalize(SlingVector(slings[i]))])
    IN  Collect([r \in 1..3 |->
            RSum(Collect([i \in 1..n |-> RMul(t[i], unit[i][r])]), n)])

\* the forces t with the signs sg
Signed(t, sg) == Collect([i \in 1..Len(t) |-> IF sg[i] = 1 THEN t[i] ELSE RNeg(t[i])])

\* the tensions of an analysis
TensionsOf(analysis) ==
    Collect([i \in 1..Len(analysis.sling_tensions) |->
                analysis.sling_tensions[i].tension_kg])

\* C30: in the three-sling and the four-to-six-sling solvers the absolute
\* value comes before the test on negative tensions, which never fires: no
\* analysis of three to six slings fails with the negative-tension message,
\* every tension of a successful one is a number >= 0, and the tensions are
\* the magnitudes of the solved forces: with three slings some choice of
\* signs makes them balance the load, A (s t) = (0, 0, W); with four to six
\* some choice of signs makes them satisfy the normal equations
\* A^T (A (s t) - (0, 0, -W)) = 0 of the system the solver is given.
C30_AbsBeforeNegativeCheck ==
    (out.op = "analyze" /\ Len(rig.slings) \in 3..MaxSupportedSlings) =>
        LET n == Len(rig.slings)
            W == RInt(rig.load.weight_kg)
            zero == RInt(0)
        IN  /\ out.ret.tag = "Err" =>
                ~(/\ out.ret.e.kind = "InvalidConfiguration"
                  /\ out.ret.e.msg = NegativeTensionMessage)
            /\ out.ret.tag = "Ok" =>
                Bind(TensionsOf(out.ret.v), LAMBDA t :
                    /\ Len(t) = n
                    /\ \A i \in 1..n : t[i] # NaN /\ RLe(zero, t[i])
                    /\ \E sg \in [1..n -> {-1, 1}] :
                           Bind(Resultant(rig.slings, Signed(t, sg)), LAMBDA f :
                               IF n = 3 THEN f = <<zero, zero, W>>
                               ELSE \A k \in 1..n :
                                       Dot(Normalize(SlingVector(rig.slings[k])),
                                           <<f[1], f[2], RAdd(f[3], W)>>) = zero))

\* three slings of which one would have to push: the lift is accepted, and
\* the tensions it reports, all pulling, do not balance the load
C30_Witness ==
    /\ out.op = "analyze"
    /\ Len(rig.slings) = 3
    /\ rig.load.weight_kg > 0
    /\ out.ret.tag = "Ok"
    /\ \A i \in 1..3 : RLe(RInt(0), out.ret.v.sling_tensions[i].tension_kg)
    /\ Resultant(rig.slings, TensionsOf(out.ret.v))
           # <<RInt(0), RInt(0), RInt(rig.load.weight_kg)>>

====
